---- MODULE Spec2Model ----
(***************************************************************************)
(* Model of the self-correcting code-execution bridge of XortronDesktop:   *)
(*   xortron_mcp_bridge.py  McpCodeBridge (create, _call_tool,             *)
(*                          execute_python, execute_shell) and _auto_fix   *)
(*   mcp_code_server.py     call_tool, _run_python, _run_shell             *)
(*   code_server_http.py    execute_python                                 *)
(*                                                                         *)
(* Text is a sequence of tokens.  Source code is a sequence of lines, each *)
(* line a record [ind, k, arg]: its indentation, the kind of statement it  *)
(* holds and the statement's argument.  Error text (stderr, error) is a    *)
(* sequence of markers [t, sym, n, pat]; the regular expressions of        *)
(* _auto_fix search that sequence left to right.  A result dictionary is a *)
(* function from field names to values; a missing key is a name outside    *)
(* its DOMAIN.                                                             *)
(***************************************************************************)
EXTENDS Integers, Sequences, FiniteSets, TLC

\* ------------------------------------------------------------------ bounds
MaxCodeLen == 2      \* lines of a submitted script
MaxIndent  == 1      \* indentation levels of a submitted line
NumInv     == 2      \* execute_python invocations running on one bridge
MaxRequests == 5     \* requests of one generation stage that are followed
MaxRuns == 3         \* PostingPipeline.run calls that are followed
MaxSimCalls == 4     \* should_post() calls that are followed

\* --------------------------------------------------------------- constants
MAX_SELF_CORRECT_ATTEMPTS == 3

\* the two advertised operations
TOOLS == {"execute_python", "execute_shell"}

\* timeouts a caller passes (the test's 2 s and the 30 s default)
Timeouts == {2, 30}

\* --------------------------------------------------------- dictionaries
EmptyDict == <<>>

Has(d, key) == key \in DOMAIN d

\* dict.get(key, default)
Get(d, key, default) == IF key \in DOMAIN d THEN d[key] ELSE default

\* d[key] = val
Put(d, key, val) == [x \in (DOMAIN d) \cup {key} |-> IF x = key THEN val ELSE d[x]]

\* ------------------------------------------------------------------ text
Marker(t, sym) == [t |-> t, sym |-> sym, n |-> 0, pat |-> <<>>]

Line(ind, k, arg) == [ind |-> ind, k |-> k, arg |-> arg]

IsBlank(l) == l.k = "blank"

\* --------------------------------------------------- repair heuristics
_IMPORT_MAP ==
    [np |-> "import numpy as np",
     pd |-> "import pandas as pd",
     plt |-> "import matplotlib.pyplot as plt",
     math |-> "import math",
     random |-> "import random",
     json |-> "import json",
     re |-> "import re",
     os |-> "import os",
     sys |-> "import sys",
     time |-> "import time",
     decimal |-> "from decimal import Decimal, getcontext",
     fractions |-> "from fractions import Fraction",
     itertools |-> "import itertools",
     functools |-> "import functools",
     collections |-> "import collections",
     statistics |-> "import statistics",
     hashlib |-> "import hashlib"]

\* the statement _IMPORT_MAP[sym] as a line of code
ImportLine(sym) == Line(0, "import", _IMPORT_MAP[sym])

\* min of a non-empty set of naturals
Min(S) == CHOOSE m \in S : \A x \in S : m <= x

\* textwrap.dedent: whitespace-only lines lose their whitespace, the other
\* lines lose the margin they have in common
dedent(code) ==
    LET idx    == {i \in 1..Len(code) : ~IsBlank(code[i])}
        margin == IF idx = {} THEN 0 ELSE Min({code[i].ind : i \in idx})
    IN  [i \in 1..Len(code) |->
            IF IsBlank(code[i]) THEN Line(0, "blank", "")
            ELSE Line(code[i].ind - margin, code[i].k, code[i].arg)]

\* str.strip on a script: the leading and trailing whitespace-only lines go,
\* and so does the indentation of the first line that is left
strip(code) ==
    LET idx == {i \in 1..Len(code) : ~IsBlank(code[i])}
    IN  IF idx = {} THEN <<>>
        ELSE LET lo  == Min(idx)
                 hi  == CHOOSE m \in idx : \A x \in idx : x <= m
                 cut == SubSeq(code, lo, hi)
             IN  [cut EXCEPT ![1] = Line(0, cut[1].k, cut[1].arg)]

\* the symbols of the model that hold a character outside \w: dotted module
\* names, as in "No module named 'json.nothing'"
DottedNames == {"json.nothing"}

\* '(\w+)' matches the whole quoted symbol
IsWord(sym) == sym \notin DottedNames

\* re.search(r"<t> '(\w+)'", stderr): the symbol of the first marker of kind
\* t whose quoted symbol is a word, or "" when there is none
Search(stderr, t) ==
    LET idx == {i \in 1..Len(stderr) : stderr[i].t = t /\ IsWord(stderr[i].sym)}
    IN  IF idx = {} THEN "" ELSE stderr[Min(idx)].sym

\* Mentions that is satisfied by any error text at all
Mentions_nonempty(stderr, t) == stderr # <<>>

\* '"<t>" in stderr': the error class names occur in the markers of that
\* class
Mentions(stderr, t) == \E i \in 1..Len(stderr) : stderr[i].t = t

\* re.search(r'\bprint\s+[^(]', code)
HasLegacyPrint(code) == \E i \in 1..Len(code) : code[i].k = "print_stmt"

\* re.sub(r'\bprint\s+(.+)', 'print(\1)', code): a statement-style print
\* becomes a call; "print(x)" has no whitespace after print and is left alone
RewritePrint(code) ==
    [i \in 1..Len(code) |->
        IF code[i].k = "print_stmt"
        THEN Line(code[i].ind, "print_call", code[i].arg)
        ELSE code[i]]

\* Python's None, as a value no script equals
None == <<Line(0, "None", "")>>

\* _auto_fix with the indentation rule tried first
_auto_fix_indent_first(code, stderr) ==
    LET name == Search(stderr, "NameError")
        mod  == Search(stderr, "ModuleNotFoundError")
    IN  IF Mentions(stderr, "IndentationError")
            THEN dedent(code)
        ELSE IF name # "" /\ name \in DOMAIN _IMPORT_MAP
            THEN <<ImportLine(name)>> \o code
        ELSE IF mod # ""
            THEN IF mod \in DOMAIN _IMPORT_MAP
                    THEN <<ImportLine(mod)>> \o code
                    ELSE <<Line(0, "import", "import subprocess, sys"),
                           Line(0, "pip_install", mod)>> \o code
        ELSE IF Mentions(stderr, "SyntaxError") /\ HasLegacyPrint(code)
                /\ RewritePrint(code) # code
            THEN RewritePrint(code)
        ELSE None

_auto_fix(code, stderr) ==
    LET name == Search(stderr, "NameError")
        mod  == Search(stderr, "ModuleNotFoundError")
    IN  IF name # "" /\ name \in DOMAIN _IMPORT_MAP
            THEN <<ImportLine(name)>> \o code
        ELSE IF mod # ""
            THEN IF mod \in DOMAIN _IMPORT_MAP
                    THEN <<ImportLine(mod)>> \o code
                    ELSE <<Line(0, "import", "import subprocess, sys"),
                           Line(0, "pip_install", mod)>> \o code
        ELSE IF Mentions(stderr, "IndentationError")
            THEN dedent(code)
        ELSE IF Mentions(stderr, "SyntaxError") /\ HasLegacyPrint(code)
                /\ RewritePrint(code) # code
            THEN RewritePrint(code)
        ELSE None

\* ---------------------------------------------------------- subprocess
\* What the operating system does with one subprocess launch:
\*   exit          the process ran and exited with returncode
\*   timeout       it had not exited when the timeout elapsed
\*   launch_error  creating it raised (exception text in msg)
Outcome(kind, returncode, stdout, stderr, msg) ==
    [kind |-> kind, returncode |-> returncode, stdout |-> stdout,
     stderr |-> stderr, msg |-> msg, elapsed |-> 1]

NoOutcome == Outcome("none", 0, "", <<>>, <<>>)

\* the f-strings of the executors' error texts
TimedOutText(what, timeout) ==
    <<[t |-> what, sym |-> "", n |-> timeout, pat |-> <<>>]>>

BlockedText(blocked) ==
    <<[t |-> "Blocked pattern detected", sym |-> "", n |-> 0, pat |-> blocked]>>

\* a function's way out: a returned value or a raised exception
Returned(val) == [raised |-> FALSE, val |-> val, exc |-> <<>>]
Raised(exc)   == [raised |-> TRUE, val |-> EmptyDict, exc |-> exc]

\* --------------------------------------------------- mcp_code_server.py
_run_python(code, timeout, out) ==
    CASE out.kind = "exit" ->
            Returned([stdout |-> out.stdout, stderr |-> out.stderr,
                      exit_code |-> out.returncode, elapsed_s |-> out.elapsed])
      [] out.kind = "timeout" ->
            Returned([error |-> TimedOutText("Execution timed out after", timeout),
                      exit_code |-> -1])
      [] OTHER -> Raised(out.msg)

\* "blocked in cmd"
Contains(blocked, cmd) ==
    \E i \in 0..(Len(cmd) - Len(blocked)) : SubSeq(cmd, i + 1, i + Len(blocked)) = blocked

BLOCKED_SHELL_PATTERNS ==
    << <<"r","m"," ","-","r","f"," ","/">>,
       <<"m","k","f","s">>,
       <<"d","d"," ","i","f","=","/","d","e","v","/","z","e","r","o">>,
       <<":","(",")","{">>,
       <<"f","o","r","k"," ","b","o","m","b">> >>

\* FirstBlocked with the test "cmd.startswith(blocked)" in place of
\* "blocked in cmd"
FirstBlocked_prefix(cmd) ==
    LET hit == {i \in 1..Len(BLOCKED_SHELL_PATTERNS) :
                    /\ Len(BLOCKED_SHELL_PATTERNS[i]) <= Len(cmd)
                    /\ SubSeq(cmd, 1, Len(BLOCKED_SHELL_PATTERNS[i])) = BLOCKED_SHELL_PATTERNS[i]}
    IN  IF hit = {} THEN 0 ELSE Min(hit)

\* the first pattern of the list that occurs in cmd, as an index; 0 if none
FirstBlocked(cmd) ==
    LET hit == {i \in 1..Len(BLOCKED_SHELL_PATTERNS) : Contains(BLOCKED_SHELL_PATTERNS[i], cmd)}
    IN  IF hit = {} THEN 0 ELSE Min(hit)

_run_shell(cmd, timeout, out) ==
    IF FirstBlocked(cmd) # 0
    THEN Returned([error |-> BlockedText(BLOCKED_SHELL_PATTERNS[FirstBlocked(cmd)]),
                   exit_code |-> -1])
    ELSE CASE out.kind = "exit" ->
                 Returned([stdout |-> out.stdout, stderr |-> out.stderr,
                           exit_code |-> out.returncode, elapsed_s |-> out.elapsed])
           [] out.kind = "timeout" ->
                 Returned([error |-> TimedOutText("Shell command timed out after", timeout),
                           exit_code |-> -1])
           [] OTHER -> Raised(out.msg)

\* Spawns without the denylist test in front of create_subprocess_shell
Spawns_unchecked(name, args, out) ==
    IF (name = "execute_python" /\ Has(args, "code")) \/ (name = "execute_shell" /\ Has(args, "cmd"))
        THEN IF out.kind \in {"exit", "timeout"} THEN 1 ELSE 0
    ELSE 0

\* subprocesses created by one tool call: create_subprocess_* is reached
\* and does not raise
Spawns(name, args, out) ==
    IF name = "execute_python" /\ Has(args, "code")
        THEN IF out.kind \in {"exit", "timeout"} THEN 1 ELSE 0
    ELSE IF name = "execute_shell" /\ Has(args, "cmd")
        THEN IF FirstBlocked(args.cmd) = 0 /\ out.kind \in {"exit", "timeout"} THEN 1 ELSE 0
    ELSE 0

\* Kill with "proc.kill()" left out
Kill_skipped(st) == st

\* proc.kill() on a subprocess in state st
Kill(st) == IF st = "running" THEN "killed" ELSE st

\* the state in which one tool call leaves the subprocess it created: "none"
\* (none was created), "exited", or what the TimeoutError handler makes of a
\* subprocess that is still running
ProcAfter(name, args, out) ==
    IF Spawns(name, args, out) = 0 THEN "none"
    ELSE IF out.kind = "exit" THEN "exited"
    ELSE Kill("running")

\* json.dumps of a dictionary, and the single text content item carrying it
json_dumps(d) == [fmt |-> "object", val |-> d]

TextContent(raw) == [hasText |-> TRUE, raw |-> raw]

\* the body of call_tool's try statement
Dispatch(name, args, out) ==
    IF name = "execute_python"
        THEN IF Has(args, "code")
             THEN _run_python(args.code, Get(args, "timeout", 30), out)
             ELSE Raised(<<Marker("KeyError", "code")>>)
    ELSE IF name = "execute_shell"
        THEN IF Has(args, "cmd")
             THEN _run_shell(args.cmd, Get(args, "timeout", 15), out)
             ELSE Raised(<<Marker("KeyError", "cmd")>>)
    ELSE Returned([error |-> <<Marker("Unknown tool", name)>>])

\* Caught without the except clause: the exception leaves call_tool
Caught_none(r) == r

\* "except Exception as exc": what the try statement of call_tool yields
Caught(r) ==
    IF r.raised THEN Returned([error |-> r.exc, traceback |-> "traceback"]) ELSE r

\* what the transport sends when a handler raises: the exception's text,
\* which is no JSON document
Escaped == <<TextContent([fmt |-> "text", val |-> EmptyDict])>>

call_tool(name, args, out) ==
    LET r == Caught(Dispatch(name, args, out))
    IN  IF r.raised THEN Escaped ELSE <<TextContent(json_dumps(r.val))>>

\* --------------------------------------------------- code_server_http.py
\* execute_python of the HTTP front end (subprocess.run under try/except)
http_execute_python(code, timeout, out) ==
    CASE out.kind = "exit" ->
            [stdout |-> out.stdout, stderr |-> out.stderr,
             exit_code |-> out.returncode, elapsed_s |-> out.elapsed]
      [] out.kind = "timeout" ->
            [error |-> TimedOutText("Execution timed out after", timeout),
             stdout |-> "", stderr |-> <<>>, exit_code |-> -1, elapsed_s |-> timeout]
      [] OTHER ->
            [error |-> out.msg, stdout |-> "", stderr |-> <<>>, exit_code |-> -1]

\* ------------------------------------------------- xortron_mcp_bridge.py
InfraError(msg) == [error |-> <<Marker(msg, "")>>, exit_code |-> -1]

\* Falsy with the test for the empty text left out
Falsy_never(raw) == FALSE

\* "if not raw": the empty string is the only falsy text
Falsy(raw) == raw.fmt = "empty"

\* str(item) of a content item without a text attribute: its repr, which is
\* neither empty nor JSON
StrOf(item) == [fmt |-> "text", val |-> EmptyDict]

\* _call_tool from the reply of session.call_tool on: status "dict" (a
\* dictionary in val), "other" (json.loads gave a value that is no
\* dictionary) or "raised" (json.loads raised)
ParseReply(content) ==
    IF content = <<>>
    THEN [status |-> "dict", val |-> InfraError("MCP server returned empty content")]
    ELSE LET item == content[1]
             raw  == IF item.hasText THEN item.raw ELSE StrOf(item)
         IN  IF Falsy(raw)
             THEN [status |-> "dict", val |-> InfraError("MCP server returned blank text")]
             ELSE CASE raw.fmt = "object" -> [status |-> "dict", val |-> raw.val]
                    [] raw.fmt = "array"  -> [status |-> "other", val |-> EmptyDict]
                    [] OTHER              -> [status |-> "raised", val |-> EmptyDict]

\* CatalogOk with the second assertion left out
CatalogOk_first(names) == "execute_python" \in names

\* the assertions of create() on the advertised tool names
CatalogOk(names) == "execute_python" \in names /\ "execute_shell" \in names

\* the while condition of execute_python
LoopCond(n, sc) == n < (IF sc THEN MAX_SELF_CORRECT_ATTEMPTS ELSE 1)

\* IsSuccess that also wants stderr to be empty
IsSuccess_quiet(r) == Get(r, "exit_code", 0) = 0 /\ Get(r, "stderr", <<>>) = <<>>

\* 'if result.get("exit_code", 0) == 0'
IsSuccess(r) == Get(r, "exit_code", 0) = 0

\* NoFix without the test for None
NoFix_never(fixed) == FALSE

\* "if fixed is None"
NoFix(fixed) == fixed = None

\* NextCode with the assignment "current_code = fixed" left out
NextCode_stale(code, fixed) == code

\* "current_code = fixed": the code of the next attempt
NextCode(code, fixed) == fixed

\* ShouldBreak with the limit reached one attempt early
ShouldBreak_early(n, sc) == n >= MAX_SELF_CORRECT_ATTEMPTS - 1 \/ ~sc

\* ShouldBreak without "or not self_correct"
ShouldBreak_limit(n, sc) == n >= MAX_SELF_CORRECT_ATTEMPTS

\* ShouldBreak without "attempt >= MAX_SELF_CORRECT_ATTEMPTS or"
ShouldBreak_flag(n, sc) == ~sc

\* ShouldBreak with the limit tested by ">" in place of ">="
ShouldBreak_late(n, sc) == n > MAX_SELF_CORRECT_ATTEMPTS \/ ~sc

\* "if attempt >= MAX_SELF_CORRECT_ATTEMPTS or not self_correct: break"
ShouldBreak(n, sc) == n >= MAX_SELF_CORRECT_ATTEMPTS \/ ~sc

\* a or b, on text
Or(a, b) == IF a # <<>> THEN a ELSE b

\* Annotate with the attempt counted after the call instead of before it
Annotate_late(r, n, code) == Put(Put(r, "attempts", n - 1), "final_code", code)

\* result["attempts"] = attempt; result["final_code"] = current_code
Annotate(r, n, code) == Put(Put(r, "attempts", n), "final_code", code)

PythonRequest(code, t) ==
    [name |-> "execute_python", args |-> [code |-> code, timeout |-> t]]

ShellRequest(c, t) ==
    [name |-> "execute_shell", args |-> [cmd |-> c, timeout |-> t]]

NoRequest == [name |-> "", args |-> EmptyDict]

\* ------------------------------------------------------------- inputs
InputLines ==
    {Line(i, "stmt", "x") : i \in 0..MaxIndent} \cup
    {Line(i, "print_stmt", "x") : i \in 0..MaxIndent} \cup
    {Line(i, "blank", "") : i \in 0..MaxIndent}

SeqsUpTo(S, n) == UNION {[1..m -> S] : m \in 0..n}

Codes == SeqsUpTo(InputLines, MaxCodeLen)

\* what a failing script leaves on stderr
StderrSamples ==
    { <<>>,
      <<Marker("NameError", "math")>>,
      <<Marker("NameError", "foo")>>,
      <<Marker("ModuleNotFoundError", "np")>>,
      <<Marker("ModuleNotFoundError", "foo")>>,
      <<Marker("ModuleNotFoundError", "json.nothing")>>,
      <<Marker("IndentationError", "")>>,
      <<Marker("SyntaxError", "")>>,
      <<Marker("SyntaxError", ""), Marker("NameError", "math")>>,
      <<Marker("ZeroDivisionError", "")>> }

Outcomes ==
    {Outcome("exit", 0, "out", <<>>, <<>>),
     Outcome("exit", 0, "out", <<Marker("DeprecationWarning", "")>>, <<>>)} \cup
    {Outcome("exit", 1, "", e, <<>>) : e \in StderrSamples} \cup
    {Outcome("timeout", 0, "", <<>>, <<>>),
     Outcome("launch_error", 0, "", <<>>, <<Marker("ValueError", "embedded null byte")>>)}

\* replies that do not come from call_tool: an empty content list, an empty or
\* blank text, text that is not JSON, JSON that is no object, an item that is
\* not text
ForeignContents ==
    { <<>>,
      <<TextContent([fmt |-> "empty", val |-> EmptyDict])>>,
      <<TextContent([fmt |-> "blank", val |-> EmptyDict])>>,
      <<TextContent([fmt |-> "text", val |-> EmptyDict])>>,
      <<TextContent([fmt |-> "array", val |-> EmptyDict])>>,
      <<[hasText |-> FALSE, raw |-> [fmt |-> "empty", val |-> EmptyDict]]>> }

CmdPrefixes == { <<>>, <<"e","c","h","o"," ">> }
CmdSuffixes == { <<>>, <<"t","m","p">> }
CmdCores ==
    {BLOCKED_SHELL_PATTERNS[i] : i \in 1..Len(BLOCKED_SHELL_PATTERNS)} \cup
    { <<"l","s">>,
      <<"r","m"," ","-","r","f"," ",".">>,
      <<"m","k","d","i","r">>,
      <<":","(",")">>,
      <<"m","k","f","s",";","r","m"," ","-","r","f"," ","/">> }

Cmds == {p \o c \o x : p \in CmdPrefixes, c \in CmdCores, x \in CmdSuffixes}

CatalogNames == TOOLS \cup {"other_tool"}

\* --------------------------------------------------------------- state
VARIABLES
    bridge,        \* "none", "ready" (create returned an instance), "failed" (create raised), "closed"
    tool_names,    \* the names list_tools gave to the last create()
    pc,            \* the caller's invocation: "idle", "awaiting", "returned", "raised"
    op,            \* the operation invoked: "python", "shell", "" when idle
    self_correct,  \* execute_python's parameter
    timeout,       \* the invocation's timeout
    current_code,  \* execute_python's local
    attempt,       \* execute_python's local
    result,        \* the dictionary the invocation returned
    chan,          \* the transport: "empty", "request", "reply"
    request,       \* the tool call sent last by the invocation
    reply,         \* the content list of the reply received last
    outcome,       \* what became of the subprocess of the last tool call
    calls,         \* tool calls issued by the invocation
    lookups,       \* _auto_fix calls made by the invocation
    spawned,       \* subprocesses created for the invocation
    exit_via,      \* how execute_python left its loop
    proc,          \* the subprocess of the last tool call: "none", "exited", "running", "killed"
    http_result,   \* the dictionary the HTTP executor returned last
    http_outcome,  \* what became of the HTTP executor's last subprocess
    http_timeout,  \* the timeout of the HTTP executor's last call
    inv,           \* concurrent invocations: the locals of each execute_python coroutine
    net,           \* concurrent invocations: the tool calls and replies in flight
    hist,          \* concurrent invocations: what the server ran and answered for each
    facade,        \* the tools llama_tools() returned, <<>> before it is called
    fcall,         \* the facade callable in progress: "none", "blocked", "returned", "raised"
    fctx,          \* where the callable was invoked: "sync", or "loop" inside the running event loop
    ftext,          \* the text the callable returned
    http_request,  \* the request the HTTP front end handled last
    http_response, \* the response it sent, NoResponse when the handler raised
    http_spawned,   \* subprocesses created for that request
    fix_code,      \* the code of the last direct _auto_fix lookup
    fix_stderr,    \* its error text
    fix_out,       \* what the lookup returned
    fix_done,       \* a lookup has been made and its result not yet taken
    lc_pc,         \* code_bridge(): "out", "in_block", "finally" (close() is due), "left"
    lc_block,      \* how the block ended: "none", "normal", "raised"
    lc_exits,      \* the __aexit__ calls close() made, in order
    lc_closes,     \* calls of bridge.close() since the block was entered
    lc_raised,      \* close() raised
    caller_code,   \* the code as the caller passed it, recorded for the invocations that are traced
    patched,        \* execute_python: the error texts whose patches have become the current code
    score_pc,      \* _score: "idle", "calling" (a scorer call is out), "returned", "raised"
    score_fn,      \* the scoring function called: "score_significance", "score_reply_significance"
    score_attempt, \* _score: the loop variable attempt
    score_replies, \* what the scorer calls of this invocation gave, in order
    score_ret,      \* the value _score returned
    gen_pc,        \* the post maker: "idle", "base" (base generation loop), "format" (formatting loop), "returned", "raised"
    gen_mode,      \* the generator running: "api" (_generate_with_api), "anthropic" (_generate_with_anthropic)
    gen_tries,     \* the local tries of the loop that is running
    gen_replies,   \* what the requests of the current stage gave, in order
    gen_base,      \* base_output / base_model_output
    gen_ret,        \* the text the generator returned
    sim,           \* HumanBehaviorSimulator: the attributes of the instance
    sim_now,       \* datetime.now(), in minutes since Monday 00:00
    sim_ret,       \* what should_post() returned last
    sim_calls,      \* should_post() calls made
    wal_pc,        \* _handle_wallet_transactions: "idle", "deciding" (inside the attempts loop), "done"
    wal_attempt,   \* the pass of "for _ in range(2)" that is running, from 1
    wal_decisions, \* what wallet_address_in_post returned in each pass
    wal_transfers,  \* the transfer_eth calls made, each with the pass that made it
    pl_db,         \* the tweet ids of the TweetPost rows committed
    pl_run,        \* PostingPipeline.run calls made
    pl_notifs,     \* the tweet ids of the notifications the last run fetched, in order
    pl_stored,     \* pl_stored[r]: the tweet ids stored when run r had committed
    pl_handled     \* the notifications passed to a handler: run, tweet id, handler

vars == <<bridge, tool_names, pc, op, self_correct, timeout, current_code, attempt,
          result, chan, request, reply, outcome, calls, lookups, spawned, exit_via,
          proc, http_result, http_outcome, http_timeout, inv, net, hist,
          facade, fcall, fctx, ftext,
          http_request, http_response, http_spawned,
          fix_code, fix_stderr, fix_out, fix_done,
          lc_pc, lc_block, lc_exits, lc_closes, lc_raised,
          caller_code, patched,
          score_pc, score_fn, score_attempt, score_replies, score_ret,
          gen_pc, gen_mode, gen_tries, gen_replies, gen_base, gen_ret,
          sim, sim_now, sim_ret, sim_calls,
          wal_pc, wal_attempt, wal_decisions, wal_transfers,
          pl_db, pl_run, pl_notifs, pl_stored, pl_handled>>

bridgeVars == <<bridge, tool_names, pc, op, self_correct, timeout, current_code,
                attempt, result, chan, request, reply, outcome, calls, lookups,
                spawned, exit_via, proc>>

httpVars == <<http_result, http_outcome, http_timeout>>

concVars == <<inv, net, hist>>

\* the coroutines that asyncio.gather runs on one bridge
Invocations == 1..NumInv

\* a coroutine that is not running
IdleInv ==
    [pc |-> "idle", self_correct |-> TRUE, timeout |-> 30, current_code |-> <<>>,
     attempt |-> 0, result |-> EmptyDict]

\* nothing asked, nothing run
NoHist == [code |-> <<>>, self_correct |-> TRUE, timeout |-> 30, ran |-> <<>>, answers |-> <<>>]

facadeVars == <<facade, fcall, fctx, ftext>>

\* no text returned
NoText == [fmt |-> "empty", val |-> EmptyDict]

httpReqVars == <<http_request, http_response, http_spawned>>

\* a JSON value of a request body
JStr(v)  == [type |-> "string", v |-> v, n |-> 0]
JNum(n)  == [type |-> "number", v |-> <<>>, n |-> n]
JNull    == [type |-> "null", v |-> <<>>, n |-> 0]

\* no request handled yet
NoHttpRequest == [method |-> "", path |-> "", body |-> [fmt |-> "empty", val |-> EmptyDict]]

\* nothing sent: the handler raised and the connection was closed
NoResponse == [status |-> 0, headers |-> {}, body |-> NoText]

\* the HTTP front end has nothing to hand over: no call or request has been
\* handled since the last result was taken
HttpIdle ==
    /\ http_request = NoHttpRequest
    /\ http_response = NoResponse
    /\ http_result = EmptyDict
    /\ http_outcome = NoOutcome

fixVars == <<fix_code, fix_stderr, fix_out, fix_done>>

lifeVars == <<lc_pc, lc_block, lc_exits, lc_closes, lc_raised>>

traceVars == <<caller_code, patched>>

scoreVars == <<score_pc, score_fn, score_attempt, score_replies, score_ret>>

genVars == <<gen_pc, gen_mode, gen_tries, gen_replies, gen_base, gen_ret>>

simVars == <<sim, sim_now, sim_ret, sim_calls>>

\* no time: Python's None for last_post_time and last_burst_time
NoTime == -1

\* HumanBehaviorSimulator(): random.randint(45, 60) for max_daily_posts,
\* random.randint(3, 5) for max_burst
HumanBehaviorSimulator(mdp, mb) ==
    [last_post_time |-> NoTime, daily_post_count |-> 0, max_daily_posts |-> mdp,
     burst_mode |-> FALSE, burst_count |-> 0, max_burst |-> mb,
     last_burst_time |-> NoTime]

\* no simulator constructed yet
NoSim == HumanBehaviorSimulator(0, 0)

\* the moments at which the runs of the model start: Monday 00:50 and 05:58,
\* Saturday 12:00, Sunday 23:58
StartTimes == {50, 358, 7920, 10078}

walVars == <<wal_pc, wal_attempt, wal_decisions, wal_transfers>>

plVars == <<pl_db, pl_run, pl_notifs, pl_stored, pl_handled>>

Init ==
    /\ bridge = "none"
    /\ tool_names = {}
    /\ pc = "idle"
    /\ op = ""
    /\ self_correct = TRUE
    /\ timeout = 30
    /\ current_code = <<>>
    /\ attempt = 0
    /\ result = EmptyDict
    /\ chan = "empty"
    /\ request = NoRequest
    /\ reply = <<>>
    /\ outcome = NoOutcome
    /\ calls = 0
    /\ lookups = 0
    /\ spawned = 0
    /\ exit_via = ""
    /\ proc = "none"
    /\ http_result = EmptyDict
    /\ http_outcome = NoOutcome
    /\ http_timeout = 30
    /\ inv = [i \in Invocations |-> IdleInv]
    /\ net = {}
    /\ hist = [i \in Invocations |-> NoHist]
    /\ facade = <<>>
    /\ fcall = "none"
    /\ fctx = "sync"
    /\ ftext = NoText
    /\ http_request = NoHttpRequest
    /\ http_response = NoResponse
    /\ http_spawned = 0
    /\ fix_code = <<>>
    /\ fix_stderr = <<>>
    /\ fix_out = None
    /\ fix_done = FALSE
    /\ lc_pc = "out"
    /\ lc_block = "none"
    /\ lc_exits = <<>>
    /\ lc_closes = 0
    /\ lc_raised = FALSE
    /\ caller_code = <<>>
    /\ patched = <<>>
    /\ score_pc = "idle"
    /\ score_fn = ""
    /\ score_attempt = 0
    /\ score_replies = <<>>
    /\ score_ret = 0
    /\ gen_pc = "idle"
    /\ gen_mode = ""
    /\ gen_tries = 0
    /\ gen_replies = <<>>
    /\ gen_base = ""
    /\ gen_ret = ""
    /\ sim = NoSim
    /\ sim_now = 0
    /\ sim_ret = FALSE
    /\ sim_calls = 0
    /\ wal_pc = "idle"
    /\ wal_attempt = 0
    /\ wal_decisions = <<>>
    /\ wal_transfers = <<>>
    /\ pl_db = {}
    /\ pl_run = 0
    /\ pl_notifs = <<>>
    /\ pl_stored = <<>>
    /\ pl_handled = {}

\* ------------------------------------------------------------- actions
\* McpCodeBridge.create(): list_tools, then the two assertions
Create(names) ==
    /\ bridge # "ready"
    /\ tool_names' = names
    /\ bridge' = IF CatalogOk(names) THEN "ready" ELSE "failed"
    /\ UNCHANGED <<pc, op, self_correct, timeout, current_code, attempt, result,
                   chan, request, reply, outcome, calls, lookups, spawned, exit_via,
                   proc>>
    /\ UNCHANGED httpVars
    /\ UNCHANGED concVars
    /\ UNCHANGED facadeVars
    /\ UNCHANGED httpReqVars
    /\ UNCHANGED fixVars
    /\ UNCHANGED lifeVars
    /\ UNCHANGED traceVars
    /\ UNCHANGED scoreVars
    /\ UNCHANGED genVars
    /\ UNCHANGED simVars
    /\ UNCHANGED walVars
    /\ UNCHANGED plVars

\* execute_python up to its first await: normalise the code, enter the loop,
\* count the attempt, send the tool call
ExecutePythonCall(code, t, sc) ==
    /\ bridge = "ready"
    /\ pc = "idle"
    /\ LoopCond(0, sc)
    /\ op' = "python"
    /\ self_correct' = sc
    /\ timeout' = t
    /\ current_code' = strip(dedent(code))
    /\ attempt' = 1
    /\ request' = PythonRequest(current_code', t)
    /\ chan' = "request"
    /\ pc' = "awaiting"
    /\ calls' = 1
    /\ lookups' = 0
    /\ spawned' = 0
    /\ exit_via' = ""
    /\ result' = EmptyDict
    /\ UNCHANGED <<bridge, tool_names, reply, outcome, proc>>
    /\ UNCHANGED httpVars
    /\ UNCHANGED concVars
    /\ UNCHANGED httpReqVars
    /\ UNCHANGED fixVars
    /\ UNCHANGED lifeVars
    /\ patched' = <<>>
    /\ UNCHANGED scoreVars
    /\ UNCHANGED genVars
    /\ UNCHANGED simVars
    /\ UNCHANGED walVars
    /\ UNCHANGED plVars

\* execute_python awaited by the caller itself
ExecutePython(code, t, sc) ==
    /\ ExecutePythonCall(code, t, sc)
    /\ UNCHANGED facadeVars
    /\ UNCHANGED caller_code

\* execute_shell up to its await
ExecuteShellCall(c, t) ==
    /\ bridge = "ready"
    /\ pc = "idle"
    /\ op' = "shell"
    /\ timeout' = t
    /\ request' = ShellRequest(c, t)
    /\ chan' = "request"
    /\ pc' = "awaiting"
    /\ calls' = 1
    /\ lookups' = 0
    /\ spawned' = 0
    /\ exit_via' = ""
    /\ result' = EmptyDict
    /\ UNCHANGED <<bridge, tool_names, self_correct, current_code, attempt, reply,
                   outcome, proc>>
    /\ UNCHANGED httpVars
    /\ UNCHANGED concVars
    /\ UNCHANGED httpReqVars
    /\ UNCHANGED fixVars
    /\ UNCHANGED lifeVars
    /\ patched' = <<>>
    /\ UNCHANGED caller_code
    /\ UNCHANGED scoreVars
    /\ UNCHANGED genVars
    /\ UNCHANGED simVars
    /\ UNCHANGED walVars
    /\ UNCHANGED plVars

\* execute_shell awaited by the caller itself
ExecuteShell(c, t) ==
    /\ ExecuteShellCall(c, t)
    /\ UNCHANGED facadeVars

\* the server's call_tool handler answers the tool call in flight
ServerCallTool(out) ==
    /\ chan = "request"
    /\ reply' = call_tool(request.name, request.args, out)
    /\ outcome' = out
    /\ spawned' = spawned + Spawns(request.name, request.args, out)
    /\ proc' = ProcAfter(request.name, request.args, out)
    /\ chan' = "reply"
    /\ UNCHANGED <<bridge, tool_names, pc, op, self_correct, timeout, current_code,
                   attempt, result, request, calls, lookups, exit_via>>
    /\ UNCHANGED httpVars
    /\ UNCHANGED concVars
    /\ UNCHANGED facadeVars
    /\ UNCHANGED httpReqVars
    /\ UNCHANGED fixVars
    /\ UNCHANGED lifeVars
    /\ UNCHANGED traceVars
    /\ UNCHANGED scoreVars
    /\ UNCHANGED genVars
    /\ UNCHANGED simVars
    /\ UNCHANGED walVars
    /\ UNCHANGED plVars

\* the session hands back a reply that call_tool did not write
ForeignReply(content) ==
    /\ chan = "request"
    /\ reply' = content
    /\ outcome' = NoOutcome
    /\ proc' = "none"
    /\ chan' = "reply"
    /\ UNCHANGED <<bridge, tool_names, pc, op, self_correct, timeout, current_code,
                   attempt, result, request, calls, lookups, spawned, exit_via>>
    /\ UNCHANGED httpVars
    /\ UNCHANGED concVars
    /\ UNCHANGED facadeVars
    /\ UNCHANGED httpReqVars
    /\ UNCHANGED fixVars
    /\ UNCHANGED lifeVars
    /\ UNCHANGED traceVars
    /\ UNCHANGED scoreVars
    /\ UNCHANGED genVars
    /\ UNCHANGED simVars
    /\ UNCHANGED walVars
    /\ UNCHANGED plVars

\* leave execute_python: with a dictionary, or with an exception
Leave(r, code, n, via, looked) ==
    /\ result' = r
    /\ current_code' = code
    /\ attempt' = n
    /\ exit_via' = via
    /\ lookups' = lookups + looked
    /\ pc' = IF via = "raise" THEN "raised" ELSE "returned"
    /\ chan' = "empty"
    /\ UNCHANGED <<calls, request>>

\* execute_python from the reply of one tool call to the next await or to
\* its return
ExecutePythonResume ==
    /\ pc = "awaiting"
    /\ op = "python"
    /\ chan = "reply"
    /\ LET p == ParseReply(reply)
           r == p.val
       IN  IF p.status # "dict"
               THEN Leave(EmptyDict, current_code, attempt, "raise", 0) /\ UNCHANGED patched
           ELSE IF IsSuccess(r)
               THEN Leave(Annotate(r, attempt, current_code), current_code, attempt, "success", 0)
                    /\ UNCHANGED patched
           ELSE IF ShouldBreak(attempt, self_correct)
               THEN Leave(Annotate(r, attempt, current_code), current_code, attempt, "limit", 0)
                    /\ UNCHANGED patched
           ELSE LET stderr == Or(Get(r, "stderr", <<>>), Get(r, "error", <<>>))
                    fixed  == _auto_fix(current_code, stderr)
                IN  IF NoFix(fixed)
                        THEN Leave(Annotate(r, attempt, current_code), current_code,
                                   attempt, "no_fix", 1) /\ UNCHANGED patched
                    ELSE IF ~LoopCond(attempt, self_correct)
                        THEN Leave(Annotate(r, attempt, NextCode(current_code, fixed)),
                                   NextCode(current_code, fixed), attempt, "loop_end", 1)
                             /\ patched' = Append(patched, stderr)
                    ELSE /\ current_code' = NextCode(current_code, fixed)
                         /\ attempt' = attempt + 1
                         /\ request' = PythonRequest(current_code', timeout)
                         /\ chan' = "request"
                         /\ calls' = calls + 1
                         /\ lookups' = lookups + 1
                         /\ patched' = Append(patched, stderr)
                         /\ UNCHANGED <<pc, result, exit_via>>
    /\ UNCHANGED <<bridge, tool_names, op, self_correct, timeout, reply, outcome, spawned,
                   proc>>
    /\ UNCHANGED httpVars
    /\ UNCHANGED concVars
    /\ UNCHANGED facadeVars
    /\ UNCHANGED httpReqVars
    /\ UNCHANGED fixVars
    /\ UNCHANGED lifeVars
    /\ UNCHANGED caller_code
    /\ UNCHANGED scoreVars
    /\ UNCHANGED genVars
    /\ UNCHANGED simVars
    /\ UNCHANGED walVars
    /\ UNCHANGED plVars

\* execute_shell from the reply on: it returns whatever _call_tool returns
ExecuteShellResume ==
    /\ pc = "awaiting"
    /\ op = "shell"
    /\ chan = "reply"
    /\ LET p == ParseReply(reply)
       IN  /\ pc' = IF p.status = "raised" THEN "raised" ELSE "returned"
           /\ exit_via' = IF p.status = "raised" THEN "raise"
                          ELSE IF p.status = "other" THEN "not_a_dict" ELSE "return"
           /\ result' = p.val
    /\ chan' = "empty"
    /\ UNCHANGED <<bridge, tool_names, op, self_correct, timeout, current_code, attempt,
                   request, reply, outcome, calls, lookups, spawned, proc>>
    /\ UNCHANGED httpVars
    /\ UNCHANGED concVars
    /\ UNCHANGED facadeVars
    /\ UNCHANGED httpReqVars
    /\ UNCHANGED fixVars
    /\ UNCHANGED lifeVars
    /\ UNCHANGED traceVars
    /\ UNCHANGED scoreVars
    /\ UNCHANGED genVars
    /\ UNCHANGED simVars
    /\ UNCHANGED walVars
    /\ UNCHANGED plVars

\* the caller takes the result (or the exception) and is free to call again
Finish ==
    /\ pc \in {"returned", "raised"}
    /\ fcall # "blocked"
    /\ pc' = "idle"
    /\ op' = ""
    /\ self_correct' = TRUE
    /\ timeout' = 30
    /\ current_code' = <<>>
    /\ attempt' = 0
    /\ result' = EmptyDict
    /\ reply' = <<>>
    /\ outcome' = NoOutcome
    /\ calls' = 0
    /\ lookups' = 0
    /\ spawned' = 0
    /\ exit_via' = ""
    /\ proc' = "none"
    /\ request' = NoRequest
    /\ UNCHANGED <<bridge, tool_names, chan>>
    /\ UNCHANGED httpVars
    /\ UNCHANGED concVars
    /\ fcall' = "none"
    /\ fctx' = "sync"
    /\ ftext' = NoText
    /\ UNCHANGED facade
    /\ UNCHANGED httpReqVars
    /\ UNCHANGED fixVars
    /\ UNCHANGED lifeVars
    /\ patched' = <<>>
    /\ caller_code' = <<>>
    /\ UNCHANGED scoreVars
    /\ UNCHANGED genVars
    /\ UNCHANGED simVars
    /\ UNCHANGED walVars
    /\ UNCHANGED plVars

\* one call of the HTTP front end's execute_python
HttpExecutePython(code, t, out) ==
    /\ HttpIdle
    /\ http_result' = http_execute_python(code, t, out)
    /\ http_outcome' = out
    /\ http_timeout' = t
    /\ UNCHANGED bridgeVars
    /\ UNCHANGED concVars
    /\ UNCHANGED facadeVars
    /\ UNCHANGED httpReqVars
    /\ UNCHANGED fixVars
    /\ UNCHANGED lifeVars
    /\ UNCHANGED traceVars
    /\ UNCHANGED scoreVars
    /\ UNCHANGED genVars
    /\ UNCHANGED simVars
    /\ UNCHANGED walVars
    /\ UNCHANGED plVars

\* The steps of the system.  The guards that do not depend on the inputs
\* stand before the quantifiers.
CreateStep ==
    bridge # "ready" /\ \E names \in SUBSET CatalogNames : Create(names)

ExecutePythonStep ==
    /\ bridge = "ready" /\ pc = "idle"
    /\ \E code \in Codes, t \in Timeouts, sc \in BOOLEAN : ExecutePython(code, t, sc)

ExecuteShellStep ==
    /\ bridge = "ready" /\ pc = "idle"
    /\ \E c \in Cmds, t \in Timeouts : ExecuteShell(c, t)

ServerStep ==
    chan = "request" /\ \E out \in Outcomes : ServerCallTool(out)

ForeignReplyStep ==
    chan = "request" /\ \E content \in ForeignContents : ForeignReply(content)

Next ==
    \/ CreateStep
    \/ ExecutePythonStep
    \/ ExecuteShellStep
    \/ ServerStep
    \/ ForeignReplyStep
    \/ ExecutePythonResume
    \/ ExecuteShellResume
    \/ Finish

Spec == Init /\ [][Next]_vars

\* ------------------------------------------------------------- claims
\* the reply in flight was written by the server's call_tool
ServerReplied == chan = "reply" /\ outcome.kind # "none"

\* the dictionary call_tool serialised into the reply
Served == reply[1].raw.val

PythonReturned == pc = "returned" /\ op = "python"

\* C1: every result execute_python returns has 1 <= attempts <=
\* MAX_SELF_CORRECT_ATTEMPTS, and attempts is the number of tool calls the
\* invocation made, whatever the executor answered and whatever self_correct
C1_AttemptsBounded ==
    PythonReturned =>
        /\ Has(result, "attempts")
        /\ 1 <= result.attempts
        /\ result.attempts <= MAX_SELF_CORRECT_ATTEMPTS
        /\ result.attempts = calls

C1_Witness ==
    /\ PythonReturned
    /\ result.attempts = MAX_SELF_CORRECT_ATTEMPTS
    /\ exit_via = "limit"

\* C2: with self_correct=False execute_python makes exactly one tool call,
\* returns attempts = 1 whatever the outcome, and never calls _auto_fix
C2_NoSelfCorrectOneAttempt ==
    (op = "python" /\ ~self_correct) =>
        /\ calls = 1
        /\ lookups = 0
        /\ attempt = 1
        /\ pc = "returned" => result.attempts = 1

C2_Witness ==
    /\ PythonReturned
    /\ ~self_correct
    /\ outcome.kind = "exit"
    /\ outcome.returncode # 0
    /\ _auto_fix(current_code, outcome.stderr) # None
    /\ result.attempts = 1

\* C3: final_code of every returned result is the code sent in the last tool
\* call, whose reply gave the result its other fields; a patch that was not
\* executed is not reported
C3_FinalCodeIsExecuted ==
    PythonReturned =>
        /\ result.final_code = request.args.code
        /\ ParseReply(reply).status = "dict"
        /\ \A k \in DOMAIN ParseReply(reply).val : result[k] = ParseReply(reply).val[k]

C3_Witness ==
    /\ PythonReturned
    /\ exit_via = "limit"
    /\ self_correct
    /\ outcome.kind = "exit"
    /\ _auto_fix(current_code, outcome.stderr) # None
    /\ _auto_fix(current_code, outcome.stderr) # current_code
    /\ result.final_code = current_code

\* C4: execute_python returns by its success path only when the executor's
\* result reports exit_code = 0; a result carrying an error is no success
C4_SuccessOnlyOnExitZero ==
    (PythonReturned /\ exit_via = "success") =>
        /\ Has(result, "exit_code")
        /\ result.exit_code = 0
        /\ ~Has(result, "error")

\* C5: a shell command containing a denylist substring creates no
\* subprocess and is answered with exit_code = -1 and an error naming a
\* blocked pattern that occurs in the command
C5_DenylistShortCircuits ==
    (/\ ServerReplied
     /\ request.name = "execute_shell"
     /\ \E i \in 1..Len(BLOCKED_SHELL_PATTERNS) :
            Contains(BLOCKED_SHELL_PATTERNS[i], request.args.cmd)) =>
        /\ spawned = 0
        /\ Get(Served, "exit_code", 0) = -1
        /\ \E i \in 1..Len(BLOCKED_SHELL_PATTERNS) :
            /\ Contains(BLOCKED_SHELL_PATTERNS[i], request.args.cmd)
            /\ Get(Served, "error", <<>>) = BlockedText(BLOCKED_SHELL_PATTERNS[i])

C5_Witness ==
    /\ ServerReplied
    /\ request.name = "execute_shell"
    /\ outcome.kind = "exit"
    /\ Contains(BLOCKED_SHELL_PATTERNS[1], request.args.cmd)
    /\ SubSeq(request.args.cmd, 1, Len(BLOCKED_SHELL_PATTERNS[1])) # BLOCKED_SHELL_PATTERNS[1]

\* C6: a script execution whose subprocess has not exited when the timeout
\* elapses is answered with exit_code = -1, the error "Execution timed out
\* after {timeout}s" and elapsed_s equal to the timeout
C6_TimeoutResultShape ==
    (/\ ServerReplied
     /\ request.name = "execute_python"
     /\ outcome.kind = "timeout") =>
        /\ Get(Served, "exit_code", 0) = -1
        /\ Get(Served, "error", <<>>) =
               TimedOutText("Execution timed out after", request.args.timeout)
        /\ Has(Served, "elapsed_s")
        /\ Served.elapsed_s = request.args.timeout

\* C7: a launch failure other than a timeout is answered with the exception
\* message in error and exit_code = -1
C7_LaunchFailureResultShape ==
    (/\ ServerReplied
     /\ request.name = "execute_python"
     /\ outcome.kind = "launch_error") =>
        /\ Get(Served, "error", <<>>) = outcome.msg
        /\ Has(Served, "exit_code")
        /\ Served.exit_code = -1

\* C8: execute_python and execute_shell never raise, whatever the executor
\* did and whatever payload came back; they return a dictionary
C8_NeverRaises ==
    /\ pc # "raised"
    /\ pc = "returned" => exit_via # "not_a_dict"

\* C9: a reply without content items, or whose first item has empty text,
\* makes _call_tool return a populated error with exit_code = -1; it does
\* not raise
C9_EmptyReplyIsErrorResult ==
    (/\ pc \in {"returned", "raised"}
     /\ \/ reply = <<>>
        \/ reply # <<>> /\ reply[1].hasText /\ reply[1].raw.fmt = "empty") =>
        /\ pc = "returned"
        /\ Get(result, "error", <<>>) # <<>>
        /\ Get(result, "exit_code", 0) = -1

C9_Witness ==
    /\ pc = "returned"
    /\ op = "shell"
    /\ reply # <<>>
    /\ reply[1].hasText
    /\ reply[1].raw.fmt = "empty"
    /\ result = InfraError("MCP server returned blank text")

\* C10: create() raises and yields no bridge whenever the advertised
\* catalog lacks execute_python or execute_shell; no call is issued through
\* a bridge whose catalog check failed
C10_CreateFailsFast ==
    /\ bridge = "ready" => TOOLS \subseteq tool_names
    /\ (bridge # "none" /\ ~(TOOLS \subseteq tool_names)) => bridge = "failed"
    /\ bridge = "failed" => (pc = "idle" /\ chan = "empty" /\ calls = 0)

C10_Witness ==
    /\ bridge = "failed"
    /\ "execute_python" \in tool_names
    /\ "execute_shell" \notin tool_names

\* execute_python holds the reply of its last tool call and is about to resume
AwaitingReply == pc = "awaiting" /\ op = "python" /\ chan = "reply"

\* what _call_tool makes of the reply received last
Got == ParseReply(reply)

\* the stderr of a result, or its error text when stderr is empty or absent
ErrText(r) ==
    IF Has(r, "stderr") /\ r.stderr # <<>> THEN r.stderr
    ELSE IF Has(r, "error") THEN r.error ELSE <<>>

\* result r with attempts n and final_code code
Annotated(r, n, code) ==
    [k \in DOMAIN r \cup {"attempts", "final_code"} |->
        IF k = "attempts" THEN n ELSE IF k = "final_code" THEN code ELSE r[k]]

TimedOutResult(r) ==
    /\ Has(r, "error")
    /\ r.error # <<>>
    /\ r.error[1].t \in {"Execution timed out after", "Shell command timed out after"}

\* C11: as soon as an attempt's result reports exit_code = 0, execute_python
\* returns it, annotated with that attempt's number and code, without another
\* tool call and without a repair lookup
C11_StopsOnSuccess ==
    [][ (/\ AwaitingReply
         /\ Got.status = "dict"
         /\ Has(Got.val, "exit_code")
         /\ Got.val.exit_code = 0)
        => (/\ pc' = "returned"
            /\ chan' = "empty"
            /\ calls' = calls
            /\ lookups' = lookups
            /\ result' = Annotated(Got.val, calls, request.args.code)) ]_vars

C11_Witness ==
    /\ PythonReturned
    /\ Has(result, "exit_code")
    /\ result.exit_code = 0
    /\ result.attempts = 2
    /\ lookups = 1

\* C12: with self_correct enabled, when the repair table has no fix for a
\* failed attempt, execute_python makes no further tool call, also below
\* MAX_SELF_CORRECT_ATTEMPTS, and returns that attempt's result
C12_StopsOnNoFix ==
    [][ (/\ AwaitingReply
         /\ Got.status = "dict"
         /\ Get(Got.val, "exit_code", 0) # 0
         /\ self_correct
         /\ attempt < MAX_SELF_CORRECT_ATTEMPTS
         /\ _auto_fix(request.args.code, ErrText(Got.val)) = None)
        => (/\ pc' = "returned"
            /\ chan' = "empty"
            /\ calls' = calls
            /\ result' = Annotated(Got.val, calls, request.args.code)) ]_vars

C12_Witness ==
    /\ PythonReturned
    /\ self_correct
    /\ Get(result, "exit_code", 0) # 0
    /\ result.attempts = 2
    /\ _auto_fix(result.final_code, ErrText(result)) = None

\* C13: with self_correct enabled, when the attempts keep failing and the
\* repair table keeps giving a patch, execute_python stops after exactly
\* MAX_SELF_CORRECT_ATTEMPTS tool calls and returns the result of the last one
\* with attempts = MAX_SELF_CORRECT_ATTEMPTS
C13_ExhaustsAtMax ==
    (/\ PythonReturned
     /\ self_correct
     /\ Get(Got.val, "exit_code", 0) # 0
     /\ _auto_fix(request.args.code, ErrText(Got.val)) # None) =>
        /\ calls = MAX_SELF_CORRECT_ATTEMPTS
        /\ lookups = MAX_SELF_CORRECT_ATTEMPTS - 1
        /\ result = Annotated(Got.val, MAX_SELF_CORRECT_ATTEMPTS, request.args.code)

C13_Witness ==
    /\ PythonReturned
    /\ self_correct
    /\ calls = MAX_SELF_CORRECT_ATTEMPTS
    /\ Get(result, "exit_code", 0) # 0
    /\ _auto_fix(result.final_code, ErrText(result)) # None
    /\ result.attempts = MAX_SELF_CORRECT_ATTEMPTS

\* C14: the code of attempt N+1 is the repair table's output for the code of
\* attempt N and the stderr of attempt N (its error text when stderr is empty
\* or absent), and the attempt counter has grown by one
C14_NextAttemptIsPatch ==
    [][ (AwaitingReply /\ chan' = "request")
        => (/\ request'.args.code = _auto_fix(request.args.code, ErrText(Got.val))
            /\ request'.args.code # None
            /\ request'.name = "execute_python"
            /\ attempt' = attempt + 1
            /\ calls' = calls + 1) ]_vars

C14_Witness ==
    /\ pc = "awaiting"
    /\ op = "python"
    /\ chan = "request"
    /\ attempt = 3
    /\ Len(request.args.code) >= 2
    /\ request.args.code[1].k = "import"
    /\ request.args.code[2].k = "import"

\* C16: every result returned by execute_python or execute_shell carries
\* attempts, the number of executions performed, and final_code, the code or
\* command submitted last
C16_ResultCarriesAttempts ==
    pc = "returned" =>
        /\ Has(result, "attempts")
        /\ Has(result, "final_code")
        /\ result.attempts = calls
        /\ op = "python" => result.final_code = request.args.code
        /\ op = "shell" => result.final_code = request.args.cmd

BoundBy ==
    [np |-> {"np"},
     pd |-> {"pd"},
     plt |-> {"plt"},
     math |-> {"math"},
     random |-> {"random"},
     json |-> {"json"},
     re |-> {"re"},
     os |-> {"os"},
     sys |-> {"sys"},
     time |-> {"time"},
     decimal |-> {"Decimal", "getcontext"},
     fractions |-> {"Fraction"},
     itertools |-> {"itertools"},
     functools |-> {"functools"},
     collections |-> {"collections"},
     statistics |-> {"statistics"},
     hashlib |-> {"hashlib"}]

\* the names an import statement binds
Binds(stmt) == UNION {BoundBy[k] : k \in {x \in DOMAIN _IMPORT_MAP : _IMPORT_MAP[x] = stmt}}

\* the symbols of _IMPORT_MAP whose module comes with the interpreter
StdlibSyms == DOMAIN _IMPORT_MAP \ {"np", "pd", "plt"}

\* what the lines 1..n of a script print (scripts here print at most once)
StdoutOf(code, n) ==
    LET idx == {i \in 1..n : code[i].k = "print_call"}
    IN  IF idx = {} THEN "" ELSE code[Min(idx)].arg

\* python -c code, for straight-line code: the lines run top to bottom; an
\* import binds names, a line of kind "use" reads the name in arg and raises
\* NameError when no line before it has bound that name
RECURSIVE Run(_, _, _)
Run(code, i, env) ==
    IF i > Len(code) THEN Outcome("exit", 0, StdoutOf(code, Len(code)), <<>>, <<>>)
    ELSE IF code[i].k = "use" /\ code[i].arg \notin env
        THEN Outcome("exit", 1, StdoutOf(code, i - 1), <<Marker("NameError", code[i].arg)>>, <<>>)
    ELSE Run(code, i + 1, IF code[i].k = "import" THEN env \cup Binds(code[i].arg) ELSE env)

PyRun(code) == Run(dedent(code), 1, {})

\* "result = <sym>.f(20)\nprint(result)" with no import, as in
\* test_self_correction
DefectScript(sym) == <<Line(0, "use", sym), Line(0, "print_call", "result")>>

DefectScripts == {DefectScript(sym) : sym \in StdlibSyms}

DefectCallStep ==
    /\ bridge = "ready" /\ pc = "idle"
    /\ \E code \in DefectScripts, t \in Timeouts, sc \in BOOLEAN : ExecutePython(code, t, sc)

\* the server runs the submitted code in the interpreter
InterpreterStep ==
    /\ chan = "request"
    /\ request.name = "execute_python"
    /\ ServerCallTool(PyRun(request.args.code))

NextSelfCorrect ==
    \/ CreateStep
    \/ DefectCallStep
    \/ InterpreterStep
    \/ ExecutePythonResume
    \/ Finish

SpecSelfCorrect == Init /\ [][NextSelfCorrect]_vars

\* C15: a script whose only defect is the use of a symbol of the import map
\* without its import returns, with self_correct, exit_code 0 after more than
\* one attempt with the expected stdout, and, without self_correct, a nonzero
\* exit_code after one attempt
C15_MissingImportIsRepaired ==
    PythonReturned =>
        IF self_correct
        THEN /\ Get(result, "exit_code", 1) = 0
             /\ result.attempts > 1
             /\ Get(result, "stdout", "") = "result"
        ELSE /\ result.attempts = 1
             /\ Get(result, "exit_code", 0) # 0

\* ------------------------------------------ concurrent invocations
\* execute_python up to its first await, as a value of the coroutine's locals
Start(code, t, sc) ==
    [pc |-> "awaiting", self_correct |-> sc, timeout |-> t,
     current_code |-> strip(dedent(code)), attempt |-> 1, result |-> EmptyDict]

\* execute_python from the return of _call_tool to its next await or to
\* its return, as a value of the coroutine's locals
AfterReply(st, content) ==
    LET p == ParseReply(content)
        r == p.val
        done(code) == [st EXCEPT !.pc = "returned", !.current_code = code,
                                 !.result = Annotate(r, st.attempt, code)]
    IN  IF p.status # "dict" THEN [st EXCEPT !.pc = "raised"]
        ELSE IF IsSuccess(r) THEN done(st.current_code)
        ELSE IF ShouldBreak(st.attempt, st.self_correct) THEN done(st.current_code)
        ELSE LET stderr == Or(Get(r, "stderr", <<>>), Get(r, "error", <<>>))
                 fixed  == _auto_fix(st.current_code, stderr)
             IN  IF NoFix(fixed) THEN done(st.current_code)
                 ELSE IF ~LoopCond(st.attempt, st.self_correct)
                     THEN done(NextCode(st.current_code, fixed))
                 ELSE [st EXCEPT !.current_code = NextCode(st.current_code, fixed),
                                 !.attempt = st.attempt + 1]

\* the tool call of invocation i for its attempt n, and the reply to it; the
\* session gives every call an id and hands a reply to the call that has its id
CallMsg(i, st) ==
    [kind |-> "call", of |-> i, n |-> st.attempt,
     req |-> PythonRequest(st.current_code, st.timeout), content |-> <<>>]

ReplyMsg(m, content) == [m EXCEPT !.kind = "reply", !.content = content]

\* Mine that takes any reply for its own
Mine_any(i, m) == m.kind = "reply"

\* the reply m answers a call of invocation i
Mine(i, m) == m.kind = "reply" /\ m.of = i

\* Received that leaves the reply in flight
Received_kept(msgs, m) == msgs

\* the awaited reply m has been received: it is in flight no more
Received(msgs, m) == msgs \ {m}

\* the scripts of the concurrent callers
ConcCodes ==
    { <<Line(0, "stmt", "a")>>,
      <<Line(1, "print_stmt", "b"), Line(0, "blank", "")>> }

\* what the subprocesses of the concurrent callers do
ConcOutcomes ==
    { Outcome("exit", 0, "out", <<>>, <<>>),
      Outcome("exit", 1, "", <<Marker("NameError", "math")>>, <<>>),
      Outcome("exit", 1, "", <<Marker("ZeroDivisionError", "")>>, <<>>) }

\* invocation i starts: execute_python(code, t, sc) runs to its first await
ConcCall(i, code, t, sc) ==
    /\ bridge = "ready"
    /\ inv[i].pc = "idle"
    /\ LoopCond(0, sc)
    /\ inv' = [inv EXCEPT ![i] = Start(code, t, sc)]
    /\ net' = net \cup {CallMsg(i, inv'[i])}
    /\ hist' = [hist EXCEPT ![i] = [code |-> code, self_correct |-> sc, timeout |-> t,
                                    ran |-> <<>>, answers |-> <<>>]]
    /\ UNCHANGED bridgeVars
    /\ UNCHANGED httpVars
    /\ UNCHANGED facadeVars
    /\ UNCHANGED httpReqVars
    /\ UNCHANGED fixVars
    /\ UNCHANGED lifeVars
    /\ UNCHANGED traceVars
    /\ UNCHANGED scoreVars
    /\ UNCHANGED genVars
    /\ UNCHANGED simVars
    /\ UNCHANGED walVars
    /\ UNCHANGED plVars

\* the server handles one of the calls in flight, in any order
ConcServe(m, out) ==
    /\ m \in net
    /\ m.kind = "call"
    /\ LET content == call_tool(m.req.name, m.req.args, out)
       IN  /\ net' = (net \ {m}) \cup {ReplyMsg(m, content)}
           /\ hist' = [hist EXCEPT ![m.of].ran = Append(@, m.req.args.code),
                                   ![m.of].answers = Append(@, content)]
    /\ UNCHANGED inv
    /\ UNCHANGED bridgeVars
    /\ UNCHANGED httpVars
    /\ UNCHANGED facadeVars
    /\ UNCHANGED httpReqVars
    /\ UNCHANGED fixVars
    /\ UNCHANGED lifeVars
    /\ UNCHANGED traceVars
    /\ UNCHANGED scoreVars
    /\ UNCHANGED genVars
    /\ UNCHANGED simVars
    /\ UNCHANGED walVars
    /\ UNCHANGED plVars

\* invocation i receives the reply it awaits and runs to its next await or
\* to its return
ConcResume(i, m) ==
    /\ inv[i].pc = "awaiting"
    /\ m \in net
    /\ Mine(i, m)
    /\ inv' = [inv EXCEPT ![i] = AfterReply(inv[i], m.content)]
    /\ net' = IF inv'[i].pc = "awaiting"
              THEN Received(net, m) \cup {CallMsg(i, inv'[i])}
              ELSE Received(net, m)
    /\ UNCHANGED hist
    /\ UNCHANGED bridgeVars
    /\ UNCHANGED httpVars
    /\ UNCHANGED facadeVars
    /\ UNCHANGED httpReqVars
    /\ UNCHANGED fixVars
    /\ UNCHANGED lifeVars
    /\ UNCHANGED traceVars
    /\ UNCHANGED scoreVars
    /\ UNCHANGED genVars
    /\ UNCHANGED simVars
    /\ UNCHANGED walVars
    /\ UNCHANGED plVars

\* the caller takes the result (or the exception) of invocation i
ConcFinish(i) ==
    /\ inv[i].pc \in {"returned", "raised"}
    /\ inv' = [inv EXCEPT ![i] = IdleInv]
    /\ hist' = [hist EXCEPT ![i] = NoHist]
    /\ UNCHANGED net
    /\ UNCHANGED bridgeVars
    /\ UNCHANGED httpVars
    /\ UNCHANGED facadeVars
    /\ UNCHANGED httpReqVars
    /\ UNCHANGED fixVars
    /\ UNCHANGED lifeVars
    /\ UNCHANGED traceVars
    /\ UNCHANGED scoreVars
    /\ UNCHANGED genVars
    /\ UNCHANGED simVars
    /\ UNCHANGED walVars
    /\ UNCHANGED plVars

ConcCallStep ==
    /\ bridge = "ready"
    /\ \E i \in Invocations :
        /\ inv[i].pc = "idle"
        /\ \E code \in ConcCodes, sc \in BOOLEAN : ConcCall(i, code, 30, sc)

ConcServeStep ==
    \E m \in net : m.kind = "call" /\ \E out \in ConcOutcomes : ConcServe(m, out)

ConcResumeStep ==
    \E i \in Invocations : inv[i].pc = "awaiting" /\ \E m \in net : ConcResume(i, m)

ConcFinishStep ==
    \E i \in Invocations : ConcFinish(i)

NextConc ==
    \/ CreateStep
    \/ ConcCallStep
    \/ ConcServeStep
    \/ ConcResumeStep
    \/ ConcFinishStep

SpecConc == Init /\ [][NextConc]_vars

\* the messages of invocation i that are in flight
InFlight(i) == {m \in net : m.of = i}

\* execute_python run alone on the answers given, from the locals st on
RECURSIVE Solo(_, _)
Solo(st, answers) ==
    IF answers = <<>> \/ st.pc # "awaiting" THEN st
    ELSE Solo(AfterReply(st, Head(answers)), Tail(answers))

\* C17: the attempts of one execute_python invocation are sequential: the
\* invocation has at most one tool call in flight, the call of its current
\* attempt, and the call of attempt N+1 is issued by the step that receives
\* the reply of attempt N
C17_AttemptsSequential ==
    \A i \in Invocations :
        /\ Cardinality(InFlight(i)) <= 1
        /\ \A m \in InFlight(i) : inv[i].pc = "awaiting" /\ m.n = inv[i].attempt
        /\ Len(hist[i].ran) \in {inv[i].attempt - 1, inv[i].attempt}

C17_Witness ==
    \E i, j \in Invocations :
        /\ i # j
        /\ inv[i].attempt = 3
        /\ inv[j].attempt = 2
        /\ \E m \in InFlight(i) : m.kind = "call"
        /\ \E m \in InFlight(j) : m.kind = "reply"

\* C18: under every interleaving of concurrent invocations, what an
\* invocation returns is what execute_python gives when it runs alone on the
\* invocation's own arguments and on the answers to its own tool calls; the
\* server ran the invocation's own code, and the final_code and attempts
\* returned are those of its last call
C18_NoCrossTalk ==
    \A i \in Invocations :
        inv[i].pc = "returned" =>
            LET h == hist[i]
            IN  /\ inv[i] = Solo(Start(h.code, h.timeout, h.self_correct), h.answers)
                /\ h.ran # <<>>
                /\ h.ran[1] = strip(dedent(h.code))
                /\ inv[i].result.attempts = Len(h.ran)
                /\ inv[i].result.final_code = h.ran[Len(h.ran)]

C18_Witness ==
    \E i, j \in Invocations :
        /\ i # j
        /\ inv[i].pc = "returned"
        /\ inv[j].pc = "returned"
        /\ hist[i].code # hist[j].code
        /\ inv[i].result.attempts = 1
        /\ inv[j].result.attempts = 3
        /\ inv[i].result.exit_code = 0
        /\ inv[j].result.exit_code = 1

\* the server answers the tool call in flight
ServerAnswers == chan = "request" /\ chan' = "reply" /\ outcome'.kind # "none"

\* the command of the tool call in flight holds a denylist substring
Denied ==
    /\ request.name = "execute_shell"
    /\ \E i \in 1..Len(BLOCKED_SHELL_PATTERNS) :
           Contains(BLOCKED_SHELL_PATTERNS[i], request.args.cmd)

ToolCatalog ==
    { [name |-> "execute_python",
       description |-> "Execute arbitrary Python 3 code in an isolated subprocess. stdout + stderr are captured and returned. The subprocess is killed after 'timeout' seconds (default 30)."],
      [name |-> "execute_shell",
       description |-> "Run a shell command. stdout + stderr returned. Killed after 'timeout' seconds (default 15). Dangerous commands (rm -rf /, :(){ ...) are blocked."] }

\* the FunctionTool list llama_tools() builds
FacadeTools ==
    << [name |-> "execute_python", fn |-> "run_python",
        description |-> "Execute Python 3 code. Returns JSON with stdout, stderr, exit_code."],
       [name |-> "execute_shell", fn |-> "run_shell",
        description |-> "Run a shell command. Returns JSON with stdout, stderr, exit_code."] >>

\* where a synchronous callable can be invoked from
Contexts == {"sync", "loop"}

\* Reentrant without nest_asyncio: run_until_complete raises inside a
\* running loop
Reentrant_plain(ctx) == ctx = "sync"

\* after nest_asyncio.apply(), loop.run_until_complete() can be entered from
\* context ctx
Reentrant(ctx) == ctx \in Contexts

\* json.dumps(r, indent=2)
FacadeText(r) == json_dumps(r)

\* llama_tools()
LlamaTools ==
    /\ bridge = "ready"
    /\ facade = <<>>
    /\ facade' = FacadeTools
    /\ UNCHANGED <<fcall, fctx, ftext>>
    /\ UNCHANGED bridgeVars
    /\ UNCHANGED httpVars
    /\ UNCHANGED concVars
    /\ UNCHANGED httpReqVars
    /\ UNCHANGED fixVars
    /\ UNCHANGED lifeVars
    /\ UNCHANGED traceVars
    /\ UNCHANGED scoreVars
    /\ UNCHANGED genVars
    /\ UNCHANGED simVars
    /\ UNCHANGED walVars
    /\ UNCHANGED plVars

\* run_python(code, timeout) up to the point where run_until_complete
\* blocks on bridge.execute_python(code, timeout)
run_python(code, t, ctx) ==
    /\ facade # <<>>
    /\ fcall = "none"
    /\ pc = "idle"
    /\ fctx' = ctx
    /\ fcall' = IF Reentrant(ctx) THEN "blocked" ELSE "raised"
    /\ IF Reentrant(ctx)
       THEN ExecutePythonCall(code, t, TRUE) /\ UNCHANGED caller_code
       ELSE UNCHANGED <<bridgeVars, httpVars, concVars, httpReqVars, fixVars, lifeVars, traceVars, scoreVars, genVars, simVars, walVars, plVars>>
    /\ UNCHANGED <<facade, ftext>>

\* run_shell(cmd, timeout), likewise
run_shell(c, t, ctx) ==
    /\ facade # <<>>
    /\ fcall = "none"
    /\ pc = "idle"
    /\ fctx' = ctx
    /\ fcall' = IF Reentrant(ctx) THEN "blocked" ELSE "raised"
    /\ IF Reentrant(ctx)
       THEN ExecuteShellCall(c, t)
       ELSE UNCHANGED <<bridgeVars, httpVars, concVars, httpReqVars, fixVars, lifeVars, traceVars, scoreVars, genVars, simVars, walVars, plVars>>
    /\ UNCHANGED <<facade, ftext>>

\* run_until_complete returns the coroutine's result, or raises what the
\* coroutine raised; the callable returns json.dumps of the result
FacadeReturn ==
    /\ fcall = "blocked"
    /\ pc \in {"returned", "raised"}
    /\ fcall' = pc
    /\ ftext' = IF pc = "returned" THEN FacadeText(result) ELSE NoText
    /\ UNCHANGED <<facade, fctx>>
    /\ UNCHANGED bridgeVars
    /\ UNCHANGED httpVars
    /\ UNCHANGED concVars
    /\ UNCHANGED httpReqVars
    /\ UNCHANGED fixVars
    /\ UNCHANGED lifeVars
    /\ UNCHANGED traceVars
    /\ UNCHANGED scoreVars
    /\ UNCHANGED genVars
    /\ UNCHANGED simVars
    /\ UNCHANGED walVars
    /\ UNCHANGED plVars

RunPythonStep ==
    /\ facade # <<>> /\ fcall = "none" /\ pc = "idle"
    /\ \E code \in Codes, t \in Timeouts, ctx \in Contexts : run_python(code, t, ctx)

RunShellStep ==
    /\ facade # <<>> /\ fcall = "none" /\ pc = "idle"
    /\ \E c \in Cmds, t \in Timeouts, ctx \in Contexts : run_shell(c, t, ctx)

NextFacade ==
    \/ CreateStep
    \/ LlamaTools
    \/ RunPythonStep
    \/ RunShellStep
    \/ ServerStep
    \/ ForeignReplyStep
    \/ ExecutePythonResume
    \/ ExecuteShellResume
    \/ FacadeReturn
    \/ Finish

SpecFacade == Init /\ [][NextFacade]_vars

\* C22: a facade callable returns only after the operation it started has
\* returned, and its text is the JSON encoding of that operation's result;
\* it raises only what the operation raised, from a synchronous context as
\* from inside the running event loop
C22_FacadeBlocksUntilDone ==
    /\ fcall = "blocked" => pc \in {"awaiting", "returned", "raised"}
    /\ fcall = "returned" => (pc = "returned" /\ ftext = json_dumps(result))
    /\ fcall = "raised" => pc = "raised"
    /\ (fcall # "none" /\ pc # "raised" /\ op = "python") => self_correct

C22_Witness ==
    /\ fcall = "returned"
    /\ fctx = "loop"
    /\ op = "python"
    /\ result.attempts = 2
    /\ ftext.val.final_code = request.args.code

\* C23: the facade has exactly two callables, and the name and the
\* description of each are those of one descriptor of the executor's tool
\* catalog, a different descriptor for each
C23_FacadeMatchesCatalog ==
    facade # <<>> =>
        /\ Len(facade) = 2
        /\ \A i \in 1..Len(facade) :
              \E d \in ToolCatalog :
                  d.name = facade[i].name /\ d.description = facade[i].description
        /\ {facade[i].name : i \in 1..Len(facade)} = {d.name : d \in ToolCatalog}

\* ------------------------------------------------- HTTP front end
\* Handler._cors_headers
_cors_headers ==
    { <<"Access-Control-Allow-Origin", "*">>,
      <<"Access-Control-Allow-Methods", "POST, GET, OPTIONS">>,
      <<"Access-Control-Allow-Headers", "Content-Type">> }

ContentTypeJson == <<"Content-Type", "application/json">>

\* Handler._json_response(status, data); Content-Length follows the body
\* and is left out
_json_response(status, data) ==
    [status |-> status, headers |-> {ContentTypeJson} \cup _cors_headers,
     body |-> json_dumps(data)]

\* send_response(404); end_headers()
NotFound == [status |-> 404, headers |-> {}, body |-> NoText]

\* the 400 responses of do_POST
HttpError(msg) == _json_response(400, [error |-> <<Marker(msg, "")>>])

\* Handler.do_OPTIONS
do_OPTIONS == [status |-> 204, headers |-> _cors_headers, body |-> NoText]

\* Handler.do_GET
do_GET(path) ==
    IF path \in {"/health", "/health/"}
    THEN [status |-> 200, headers |-> {ContentTypeJson} \cup _cors_headers,
          body |-> json_dumps([status |-> "ok", server |-> "xortron-code-http"])]
    ELSE NotFound

\* json.loads(body) does not raise
ParsesAsJson(body) == body.fmt \in {"object", "array"}

\* float(v) does not raise: v is a number (the texts of the model's bodies
\* are not numerals)
FloatOk(v) == v.type = "number"

\* v.strip() does not raise
HasStrip(v) == v.type = "string"

\* the outcome of one do_POST: the response (NoResponse when the handler
\* raised), the dictionary of execute_python and whether it was called
PostOutcome(response, ran, res) == [response |-> response, ran |-> ran, result |-> res]

\* Handler.do_POST
do_POST(path, body, out) ==
    IF path \notin {"/execute", "/execute/"} THEN PostOutcome(NotFound, FALSE, EmptyDict)
    ELSE IF ~ParsesAsJson(body) THEN PostOutcome(HttpError("Invalid JSON body"), FALSE, EmptyDict)
    ELSE IF body.fmt # "object" THEN PostOutcome(NoResponse, FALSE, EmptyDict)
    ELSE LET payload == body.val
             code    == Get(payload, "code", JStr(<<>>))
             timeout_ == Get(payload, "timeout", JNum(30))
         IN  IF ~FloatOk(timeout_) THEN PostOutcome(NoResponse, FALSE, EmptyDict)
             ELSE IF ~HasStrip(code) THEN PostOutcome(NoResponse, FALSE, EmptyDict)
             ELSE IF strip(code.v) = <<>> THEN PostOutcome(HttpError("No code provided"), FALSE, EmptyDict)
             ELSE LET res == http_execute_python(code.v, timeout_.n, out)
                  IN  PostOutcome(_json_response(200, res), TRUE, res)

HttpMethods == {"GET", "POST", "OPTIONS"}

HttpPaths == {"/execute", "/execute/", "/health", "/health/", "/other"}

\* the code and timeout members of a JSON object sent to /execute
BodyCodes ==
    { JStr(<<>>), JStr(<<Line(1, "blank", "")>>), JStr(<<Line(0, "stmt", "x")>>), JNum(5) }

BodyTimeouts == { JNum(2), JStr(<<Line(0, "stmt", "x")>>), JNull }

BodyObjects ==
    {EmptyDict} \cup
    {[code |-> c] : c \in BodyCodes} \cup
    {[timeout |-> t] : t \in BodyTimeouts} \cup
    {[code |-> c, timeout |-> t] : c \in BodyCodes, t \in BodyTimeouts}

HttpBodies ==
    {[fmt |-> "object", val |-> o] : o \in BodyObjects} \cup
    {[fmt |-> f, val |-> EmptyDict] : f \in {"array", "text", "blank", "empty"}}

HttpRequest(method, path, body) == [method |-> method, path |-> path, body |-> body]

\* the server handles one request
Handle(method, path, body, out) ==
    /\ HttpIdle
    /\ http_request' = HttpRequest(method, path, body)
    /\ IF method = "POST"
       THEN LET po == do_POST(path, body, out)
            IN  /\ http_response' = po.response
                /\ http_spawned' = IF po.ran /\ out.kind \in {"exit", "timeout"} THEN 1 ELSE 0
                /\ http_result' = po.result
                /\ http_outcome' = IF po.ran THEN out ELSE NoOutcome
                /\ http_timeout' = IF po.ran THEN Get(body.val, "timeout", JNum(30)).n ELSE 30
       ELSE /\ http_response' = IF method = "OPTIONS" THEN do_OPTIONS ELSE do_GET(path)
            /\ http_spawned' = 0
            /\ http_result' = EmptyDict
            /\ http_outcome' = NoOutcome
            /\ http_timeout' = 30
    /\ UNCHANGED bridgeVars
    /\ UNCHANGED concVars
    /\ UNCHANGED facadeVars
    /\ UNCHANGED fixVars
    /\ UNCHANGED lifeVars
    /\ UNCHANGED traceVars
    /\ UNCHANGED scoreVars
    /\ UNCHANGED genVars
    /\ UNCHANGED simVars
    /\ UNCHANGED walVars
    /\ UNCHANGED plVars

\* the caller or the client has taken the result or the response (or has
\* seen the connection closed)
HttpTake ==
    /\ ~HttpIdle
    /\ http_request' = NoHttpRequest
    /\ http_response' = NoResponse
    /\ http_result' = EmptyDict
    /\ http_outcome' = NoOutcome
    /\ http_timeout' = 30
    /\ http_spawned' = 0
    /\ UNCHANGED bridgeVars
    /\ UNCHANGED concVars
    /\ UNCHANGED facadeVars
    /\ UNCHANGED fixVars
    /\ UNCHANGED lifeVars
    /\ UNCHANGED traceVars
    /\ UNCHANGED scoreVars
    /\ UNCHANGED genVars
    /\ UNCHANGED simVars
    /\ UNCHANGED walVars
    /\ UNCHANGED plVars

HttpExecutePythonStep ==
    HttpIdle /\ \E code \in Codes, t \in Timeouts, out \in Outcomes : HttpExecutePython(code, t, out)

HandleStep ==
    HttpIdle /\ \E method \in HttpMethods, path \in HttpPaths, body \in HttpBodies, out \in Outcomes :
        Handle(method, path, body, out)

NextHttp ==
    \/ HttpExecutePythonStep
    \/ HandleStep
    \/ HttpTake

SpecHttp == Init /\ [][NextHttp]_vars

\* the request handled last was a POST to the execute endpoint
PostedToExecute ==
    http_request.method = "POST" /\ http_request.path \in {"/execute", "/execute/"}

\* C24: POST /execute with a body that is not JSON is answered 400
\* "Invalid JSON body", with a body whose code is empty after trimming 400
\* "No code provided", and in both cases no subprocess is created
C24_BadBodiesAreRejected ==
    PostedToExecute =>
        /\ http_request.body.fmt \notin {"object", "array"} =>
              /\ http_response = HttpError("Invalid JSON body")
              /\ http_spawned = 0
        /\ (/\ http_request.body.fmt = "object"
            /\ Has(http_request.body.val, "code")
            /\ http_request.body.val.code.type = "string"
            /\ strip(http_request.body.val.code.v) = <<>>) =>
              /\ http_response = HttpError("No code provided")
              /\ http_spawned = 0

\* C25: every response the HTTP front end sends carries the CORS headers
C25_EveryResponseHasCors ==
    http_response.status # 0 => _cors_headers \subseteq http_response.headers

\* the terminal states of one execute_python invocation
Succeeded == PythonReturned /\ Has(result, "exit_code") /\ result.exit_code = 0

\* the repair table was asked about the last attempt and had no fix
NoFixAvailable ==
    /\ PythonReturned
    /\ ~Succeeded
    /\ lookups = calls
    /\ _auto_fix(result.final_code, ErrText(result)) = None

\* the permitted number of attempts was used without success
ExhaustedAttempts ==
    /\ PythonReturned
    /\ ~Succeeded
    /\ lookups = calls - 1
    /\ calls = (IF self_correct THEN MAX_SELF_CORRECT_ATTEMPTS ELSE 1)

\* C26: when its executor calls have returned, an execute_python invocation
\* ends after at most MAX_SELF_CORRECT_ATTEMPTS calls in exactly one of the
\* terminal states Succeeded, NoFixAvailable and ExhaustedAttempts
C26_EndsInOneOfThreeStates ==
    (PythonReturned /\ outcome.kind # "none") =>
        /\ calls <= MAX_SELF_CORRECT_ATTEMPTS
        /\ Succeeded \/ NoFixAvailable \/ ExhaustedAttempts
        /\ ~(Succeeded /\ NoFixAvailable)
        /\ ~(Succeeded /\ ExhaustedAttempts)
        /\ ~(NoFixAvailable /\ ExhaustedAttempts)

\* ------------------------------------------- the repair table alone
FixMarkers ==
    { Marker("NameError", "math"), Marker("NameError", "foo"),
      Marker("ModuleNotFoundError", "np"), Marker("ModuleNotFoundError", "foo"),
      Marker("ModuleNotFoundError", "json.nothing"),
      Marker("IndentationError", ""), Marker("SyntaxError", ""),
      Marker("ZeroDivisionError", "") }

\* error texts naming up to two errors
FixStderrs == SeqsUpTo(FixMarkers, 2)

\* fixed = _auto_fix(code, stderr)
Lookup(code, stderr) ==
    /\ ~fix_done
    /\ fix_code' = code
    /\ fix_stderr' = stderr
    /\ fix_out' = _auto_fix(code, stderr)
    /\ fix_done' = TRUE
    /\ UNCHANGED bridgeVars
    /\ UNCHANGED httpVars
    /\ UNCHANGED concVars
    /\ UNCHANGED facadeVars
    /\ UNCHANGED httpReqVars
    /\ UNCHANGED lifeVars
    /\ UNCHANGED traceVars
    /\ UNCHANGED scoreVars
    /\ UNCHANGED genVars
    /\ UNCHANGED simVars
    /\ UNCHANGED walVars
    /\ UNCHANGED plVars

\* the caller has taken the result of the lookup
LookupTaken ==
    /\ fix_done
    /\ fix_code' = <<>>
    /\ fix_stderr' = <<>>
    /\ fix_out' = None
    /\ fix_done' = FALSE
    /\ UNCHANGED bridgeVars
    /\ UNCHANGED httpVars
    /\ UNCHANGED concVars
    /\ UNCHANGED facadeVars
    /\ UNCHANGED httpReqVars
    /\ UNCHANGED lifeVars
    /\ UNCHANGED traceVars
    /\ UNCHANGED scoreVars
    /\ UNCHANGED genVars
    /\ UNCHANGED simVars
    /\ UNCHANGED walVars
    /\ UNCHANGED plVars

LookupStep ==
    ~fix_done /\ \E code \in Codes, stderr \in FixStderrs : Lookup(code, stderr)

NextAutoFix ==
    \/ LookupStep
    \/ LookupTaken

SpecAutoFix == Init /\ [][NextAutoFix]_vars

\* the position of the first marker of kind t in stderr that the pattern of
\* kind t matches, 0 when there is none
FirstMatch(stderr, t) ==
    LET idx == {i \in 1..Len(stderr) : stderr[i].t = t /\ stderr[i].sym \notin DottedNames}
    IN  IF idx = {} THEN 0 ELSE Min(idx)

\* the four rules of the repair table on the lookup made last: when each
\* applies
Rule1Applies ==
    /\ FirstMatch(fix_stderr, "NameError") # 0
    /\ fix_stderr[FirstMatch(fix_stderr, "NameError")].sym \in DOMAIN _IMPORT_MAP

Rule2Applies == FirstMatch(fix_stderr, "ModuleNotFoundError") # 0

Rule3Applies == \E i \in 1..Len(fix_stderr) : fix_stderr[i].t = "IndentationError"

Rule4Applies ==
    /\ \E i \in 1..Len(fix_stderr) : fix_stderr[i].t = "SyntaxError"
    /\ \E i \in 1..Len(fix_code) : fix_code[i].k = "print_stmt"

\* and the patch each gives
Rule1Patch ==
    <<Line(0, "import", _IMPORT_MAP[fix_stderr[FirstMatch(fix_stderr, "NameError")].sym])>> \o fix_code

Rule2Patch ==
    LET mod == fix_stderr[FirstMatch(fix_stderr, "ModuleNotFoundError")].sym
    IN  IF mod \in DOMAIN _IMPORT_MAP
        THEN <<Line(0, "import", _IMPORT_MAP[mod])>> \o fix_code
        ELSE <<Line(0, "import", "import subprocess, sys"), Line(0, "pip_install", mod)>> \o fix_code

Rule3Patch == dedent(fix_code)

Rule4Patch ==
    [i \in 1..Len(fix_code) |->
        IF fix_code[i].k = "print_stmt"
        THEN [fix_code[i] EXCEPT !.k = "print_call"] ELSE fix_code[i]]

\* C27: the repair table tries its rules in the order undefined name in the
\* import map, missing module, indentation failure, legacy print; the first
\* rule that applies alone gives the patch, an undefined name outside the map
\* falls through, and "no fix" is returned exactly when no rule applies
C27_FirstApplicableRuleWins ==
    fix_done =>
        /\ Rule1Applies => fix_out = Rule1Patch
        /\ (~Rule1Applies /\ Rule2Applies) => fix_out = Rule2Patch
        /\ (~Rule1Applies /\ ~Rule2Applies /\ Rule3Applies) => fix_out = Rule3Patch
        /\ (~Rule1Applies /\ ~Rule2Applies /\ ~Rule3Applies /\ Rule4Applies) =>
              fix_out = Rule4Patch
        /\ fix_out = None <=>
              ~(Rule1Applies \/ Rule2Applies \/ Rule3Applies \/ Rule4Applies)

C27_Witness ==
    /\ fix_done
    /\ fix_stderr = <<Marker("IndentationError", ""), Marker("NameError", "math")>>
    /\ Len(fix_code) = 2
    /\ fix_code[1].ind = 1
    /\ fix_code[2].k = "print_stmt"
    /\ fix_out = <<Line(0, "import", "import math")>> \o fix_code

\* C28: a missing-module failure always gets a patch from the repair table,
\* so with self_correct an attempt that fails with a missing-module error is
\* followed by another attempt while fewer than MAX_SELF_CORRECT_ATTEMPTS
\* have been made
C28_MissingModuleIsRetried ==
    [][ (/\ AwaitingReply
         /\ Got.status = "dict"
         /\ Get(Got.val, "exit_code", 0) # 0
         /\ self_correct
         /\ attempt < MAX_SELF_CORRECT_ATTEMPTS
         /\ \E i \in 1..Len(ErrText(Got.val)) : ErrText(Got.val)[i].t = "ModuleNotFoundError")
        => (/\ _auto_fix(request.args.code, ErrText(Got.val)) # None
            /\ chan' = "request"
            /\ attempt' = attempt + 1) ]_vars

\* ------------------------------------------- the server called directly
\* tool calls a client of the server can send: known and unknown names, with
\* and without the required argument
RawNames == TOOLS \cup {"other_tool"}

RawArgs ==
    {EmptyDict, [timeout |-> 2]} \cup
    {[code |-> c] : c \in {<<>>, <<Line(0, "stmt", "x")>>}} \cup
    {[code |-> <<Line(0, "stmt", "x")>>, timeout |-> 2]} \cup
    {[cmd |-> c] : c \in Cmds}

\* a client sends the tool call name(args) to the server
RawCall(name, args) ==
    /\ pc = "idle"
    /\ chan = "empty"
    /\ pc' = "raw"
    /\ request' = [name |-> name, args |-> args]
    /\ chan' = "request"
    /\ UNCHANGED <<bridge, tool_names, op, self_correct, timeout, current_code, attempt,
                   result, reply, outcome, calls, lookups, spawned, exit_via, proc>>
    /\ UNCHANGED httpVars
    /\ UNCHANGED concVars
    /\ UNCHANGED facadeVars
    /\ UNCHANGED httpReqVars
    /\ UNCHANGED fixVars
    /\ UNCHANGED lifeVars
    /\ UNCHANGED traceVars
    /\ UNCHANGED scoreVars
    /\ UNCHANGED genVars
    /\ UNCHANGED simVars
    /\ UNCHANGED walVars
    /\ UNCHANGED plVars

\* the client has read the reply
RawDone ==
    /\ pc = "raw"
    /\ chan = "reply"
    /\ pc' = "idle"
    /\ chan' = "empty"
    /\ request' = NoRequest
    /\ reply' = <<>>
    /\ outcome' = NoOutcome
    /\ spawned' = 0
    /\ proc' = "none"
    /\ UNCHANGED <<bridge, tool_names, op, self_correct, timeout, current_code, attempt,
                   result, calls, lookups, exit_via>>
    /\ UNCHANGED httpVars
    /\ UNCHANGED concVars
    /\ UNCHANGED facadeVars
    /\ UNCHANGED httpReqVars
    /\ UNCHANGED fixVars
    /\ UNCHANGED lifeVars
    /\ UNCHANGED traceVars
    /\ UNCHANGED scoreVars
    /\ UNCHANGED genVars
    /\ UNCHANGED simVars
    /\ UNCHANGED walVars
    /\ UNCHANGED plVars

RawCallStep ==
    /\ pc = "idle" /\ chan = "empty"
    /\ \E name \in RawNames, args \in RawArgs : RawCall(name, args)

NextServer ==
    \/ RawCallStep
    \/ ServerStep
    \/ RawDone

SpecServer == Init /\ [][NextServer]_vars

\* the required argument of the tool call in flight is missing
MissingArgument ==
    \/ request.name = "execute_python" /\ ~Has(request.args, "code")
    \/ request.name = "execute_shell" /\ ~Has(request.args, "cmd")

\* C29: whatever tool call call_tool receives - a known operation, an
\* unknown name, a missing required argument, an execution that raises - it
\* returns exactly one text content item holding a JSON document, and nothing
\* it raised reaches the transport
C29_AlwaysOneJsonItem ==
    (chan = "reply" /\ pc = "raw") =>
        /\ Len(reply) = 1
        /\ reply[1].hasText
        /\ reply[1].raw.fmt = "object"
        /\ request.name \notin TOOLS =>
              reply[1].raw.val = [error |-> <<Marker("Unknown tool", request.name)>>]
        /\ (request.name \in TOOLS /\ MissingArgument) =>
              Has(reply[1].raw.val, "error") /\ Has(reply[1].raw.val, "traceback")
        /\ (request.name \in TOOLS /\ ~MissingArgument /\ ~Denied /\ outcome.kind = "launch_error") =>
              Get(reply[1].raw.val, "error", <<>>) = outcome.msg

C29_Witness ==
    /\ chan = "reply"
    /\ pc = "raw"
    /\ request.name = "execute_shell"
    /\ request.args = [timeout |-> 2]
    /\ Has(Served, "traceback")

\* ------------------------------------------------ code_bridge()
\* what awaiting an __aexit__ can do: return, raise an Exception, or raise
\* asyncio.CancelledError, a BaseException, when the task is cancelled
\* while it waits
ExitOutcomes == {"ok", "error", "cancelled"}

\* "except Exception: pass" lets the exception of outcome o through
Escapes(o) == o = "cancelled"

\* McpCodeBridge.close() when the session exit does s_out and the transport
\* exit does c_out: the exits attempted, in order, and whether close raised
close(s_out, c_out) ==
    IF Escapes(s_out)
    THEN [exits |-> <<[what |-> "session", how |-> s_out]>>, raised |-> TRUE]
    ELSE [exits |-> <<[what |-> "session", how |-> s_out],
                      [what |-> "transport", how |-> c_out]>>,
          raised |-> Escapes(c_out)]

\* code_bridge(): create() has returned a bridge and the block is entered
CodeBridgeEnter ==
    /\ lc_pc = "out"
    /\ bridge = "ready"
    /\ pc = "idle"
    /\ lc_pc' = "in_block"
    /\ UNCHANGED <<lc_block, lc_exits, lc_closes, lc_raised>>
    /\ UNCHANGED bridgeVars
    /\ UNCHANGED httpVars
    /\ UNCHANGED concVars
    /\ UNCHANGED facadeVars
    /\ UNCHANGED httpReqVars
    /\ UNCHANGED fixVars
    /\ UNCHANGED traceVars
    /\ UNCHANGED scoreVars
    /\ UNCHANGED genVars
    /\ UNCHANGED simVars
    /\ UNCHANGED walVars
    /\ UNCHANGED plVars

\* the block ends, normally or with an exception (that of an operation of
\* the bridge or one of its own), and the finally clause is entered
BlockEnds(how) ==
    /\ lc_pc = "in_block"
    /\ pc \in {"idle", "raised"}
    /\ pc = "raised" => how = "raised"
    /\ lc_block' = how
    /\ lc_pc' = "finally"
    /\ UNCHANGED <<lc_exits, lc_closes, lc_raised>>
    /\ UNCHANGED bridgeVars
    /\ UNCHANGED httpVars
    /\ UNCHANGED concVars
    /\ UNCHANGED facadeVars
    /\ UNCHANGED httpReqVars
    /\ UNCHANGED fixVars
    /\ UNCHANGED traceVars
    /\ UNCHANGED scoreVars
    /\ UNCHANGED genVars
    /\ UNCHANGED simVars
    /\ UNCHANGED walVars
    /\ UNCHANGED plVars

\* "finally: await bridge.close()"
Close(s_out, c_out) ==
    /\ lc_pc = "finally"
    /\ lc_exits' = close(s_out, c_out).exits
    /\ lc_raised' = close(s_out, c_out).raised
    /\ lc_closes' = lc_closes + 1
    /\ lc_pc' = "left"
    /\ bridge' = "closed"
    /\ UNCHANGED lc_block
    /\ UNCHANGED <<tool_names, pc, op, self_correct, timeout, current_code, attempt,
                   result, chan, request, reply, outcome, calls, lookups, spawned,
                   exit_via, proc>>
    /\ UNCHANGED httpVars
    /\ UNCHANGED concVars
    /\ UNCHANGED facadeVars
    /\ UNCHANGED httpReqVars
    /\ UNCHANGED fixVars
    /\ UNCHANGED traceVars
    /\ UNCHANGED scoreVars
    /\ UNCHANGED genVars
    /\ UNCHANGED simVars
    /\ UNCHANGED walVars
    /\ UNCHANGED plVars

\* "bridge = await McpCodeBridge.create()", before the block
CodeBridgeCreate == lc_pc = "out" /\ CreateStep

\* inside the block the bridge is used
InBlockPython == lc_pc = "in_block" /\ ExecutePythonStep

InBlockShell == lc_pc = "in_block" /\ ExecuteShellStep

BlockEndsStep == lc_pc = "in_block" /\ \E how \in {"normal", "raised"} : BlockEnds(how)

CloseStep == lc_pc = "finally" /\ \E s_out \in ExitOutcomes, c_out \in ExitOutcomes : Close(s_out, c_out)

NextLifecycle ==
    \/ CodeBridgeCreate
    \/ CodeBridgeEnter
    \/ InBlockPython
    \/ InBlockShell
    \/ ServerStep
    \/ ForeignReplyStep
    \/ ExecutePythonResume
    \/ ExecuteShellResume
    \/ Finish
    \/ BlockEndsStep
    \/ CloseStep

SpecLifecycle == Init /\ [][NextLifecycle]_vars

\* C30: when an "async with code_bridge()" block has been left, normally or
\* by an exception, close() has run exactly once, has exited the session
\* first and the transport second, the transport also when the session exit
\* raised, and has not raised
C30_CloseRunsOnceAndNeverRaises ==
    lc_pc = "left" =>
        /\ lc_block \in {"normal", "raised"}
        /\ lc_closes = 1
        /\ Len(lc_exits) = 2
        /\ lc_exits[1].what = "session"
        /\ lc_exits[2].what = "transport"
        /\ ~lc_raised

\* ------------------------------------- failures of the infrastructure
\* the results that report no defect of the script: the executor's timeout
\* and the two error results _call_tool makes up for an empty reply
InfraFailure(r) ==
    \/ TimedOutResult(r)
    \/ r = InfraError("MCP server returned empty content")
    \/ r = InfraError("MCP server returned blank text")

\* C36: an attempt whose result is a timeout or an empty-response error is
\* the last attempt of the invocation, also with self_correct enabled and
\* attempts remaining: the repair table has no fix for these error texts, so
\* execute_python returns that result without another tool call
C36_InfraFailureIsNotRetried ==
    [][ (/\ AwaitingReply
         /\ Got.status = "dict"
         /\ InfraFailure(Got.val)
         /\ self_correct
         /\ attempt < MAX_SELF_CORRECT_ATTEMPTS)
        => (/\ _auto_fix(request.args.code, ErrText(Got.val)) = None
            /\ pc' = "returned"
            /\ chan' = "empty"
            /\ calls' = calls
            /\ result' = Annotated(Got.val, calls, request.args.code)) ]_vars

C36_Witness ==
    /\ PythonReturned
    /\ self_correct
    /\ TimedOutResult(result)
    /\ result.attempts = 2
    /\ exit_via = "no_fix"

\* C37: within one invocation the code submitted on attempt N+1 differs from
\* the code submitted on attempt N
C37_NextAttemptDiffers ==
    [][ (AwaitingReply /\ chan' = "request")
        => request'.args.code # request.args.code ]_vars

\* ------------------------------------------- the history of final_code
\* execute_python awaited by a caller whose argument is recorded
TracedPython(code, t, sc) ==
    /\ ExecutePythonCall(code, t, sc)
    /\ caller_code' = code
    /\ UNCHANGED facadeVars

TracedPythonStep ==
    /\ bridge = "ready" /\ pc = "idle"
    /\ \E code \in Codes, sc \in BOOLEAN : TracedPython(code, 30, sc)

NextTrace ==
    \/ CreateStep
    \/ TracedPythonStep
    \/ ServerStep
    \/ ForeignReplyStep
    \/ ExecutePythonResume
    \/ Finish

SpecTrace == Init /\ [][NextTrace]_vars

\* code with the repair table's patches for the error texts errs applied one
\* after the other
RECURSIVE PatchedBy(_, _)
PatchedBy(code, errs) ==
    IF errs = <<>> THEN code
    ELSE PatchedBy(_auto_fix(code, Head(errs)), Tail(errs))

\* C35: in every result of execute_python, final_code is the normalized
\* caller code with exactly attempts - 1 patches of the repair table applied
\* in sequence; with attempts = 1 it is the normalized caller code
C35_FinalCodeIsPatchedCallerCode ==
    PythonReturned =>
        /\ Len(patched) = result.attempts - 1
        /\ \A k \in 1..Len(patched) :
              PatchedBy(strip(dedent(caller_code)), SubSeq(patched, 1, k)) # None
        /\ result.final_code = PatchedBy(strip(dedent(caller_code)), patched)
        /\ result.attempts = 1 => result.final_code = strip(dedent(caller_code))

C35_Witness ==
    /\ PythonReturned
    /\ result.attempts = 3
    /\ caller_code # strip(dedent(caller_code))
    /\ patched[1] # patched[2]
    /\ result.final_code # strip(dedent(caller_code))
    /\ Len(result.final_code) = Len(strip(dedent(caller_code))) + 1

\* ------------------------------------------------ answers to POST /execute
\* C38: every POST /execute gets one response, either 200 with the
\* dictionary execute_python returned or 400 with an error body, whatever the
\* request body: unparseable bytes, JSON that is no object, a code that is no
\* string, a timeout that is no number, or a valid request
C38_EveryPostIsAnswered ==
    PostedToExecute =>
        /\ http_response # NoResponse
        /\ \/ /\ http_response.status = 200
              /\ Has(http_result, "exit_code")
              /\ http_response.body = json_dumps(http_result)
           \/ /\ http_response.status = 400
              /\ http_response.body.fmt = "object"
              /\ Has(http_response.body.val, "error")

\* --------------------------------------------- significance_scorer.py
\* _score's parameter max_tries
score_max_tries == 5

\* text of a scorer reply: a sequence of runs of digits and of other
\* characters
Digits(n) == [digits |-> TRUE, n |-> n]
Chars     == [digits |-> FALSE, n |-> 0]

\* re.findall(r"\d+", raw): the runs of digits, as numbers, in order
numbers(raw) == SelectSeq(raw, LAMBDA tok : tok.digits)

\* Clamp without the lower bound
Clamp_upper(n) == IF n > 10 THEN 10 ELSE n

\* max(1, min(10, n))
Clamp(n) == IF n < 1 THEN 1 ELSE IF n > 10 THEN 10 ELSE n

_parse_score(raw) ==
    IF numbers(raw) = <<>> THEN Raised(<<Marker("ValueError", "No numeric score in response")>>)
    ELSE Returned(Clamp(numbers(raw)[1].n))

\* what _call_scorer does: it returns the stripped text of the reply or
\* raises (request error, status other than 200, malformed JSON)
ScorerReplies ==
    { Raised(<<Marker("RuntimeError", "Hyperbolic scorer HTTP 500")>>),
      Returned(<<>>),
      Returned(<<Chars>>),
      Returned(<<Digits(0)>>),
      Returned(<<Digits(10)>>),
      Returned(<<Digits(11)>>),
      Returned(<<Chars, Digits(7), Chars, Digits(10)>>),
      Returned(<<Chars, Digits(250), Chars>>) }

\* the body of the try statement in _score for one scorer reply: "continue"
\* for an empty text, else the parsed score or the exception raised
TryScore(rep) ==
    IF rep.raised THEN [status |-> "raised", score |-> 0]
    ELSE IF rep.val = <<>> THEN [status |-> "continue", score |-> 0]
    ELSE LET p == _parse_score(rep.val)
         IN  IF p.raised THEN [status |-> "raised", score |-> 0]
             ELSE [status |-> "score", score |-> p.val]

\* score_significance / score_reply_significance: build the prompt, enter
\* _score, make the first scorer call
ScoreStart(fn) ==
    /\ score_pc = "idle"
    /\ score_pc' = "calling"
    /\ score_fn' = fn
    /\ score_attempt' = 1
    /\ score_replies' = <<>>
    /\ score_ret' = 0
    /\ UNCHANGED bridgeVars
    /\ UNCHANGED httpVars
    /\ UNCHANGED concVars
    /\ UNCHANGED facadeVars
    /\ UNCHANGED httpReqVars
    /\ UNCHANGED fixVars
    /\ UNCHANGED lifeVars
    /\ UNCHANGED traceVars
    /\ UNCHANGED genVars
    /\ UNCHANGED simVars
    /\ UNCHANGED walVars
    /\ UNCHANGED plVars

\* _score from the return of _call_scorer to the next call or to the return
ScorerAnswers(rep) ==
    /\ score_pc = "calling"
    /\ score_replies' = Append(score_replies, rep)
    /\ LET r == TryScore(rep)
       IN  IF r.status = "score"
               THEN /\ score_pc' = "returned"
                    /\ score_ret' = r.score
                    /\ UNCHANGED score_attempt
           ELSE IF score_attempt < score_max_tries
               THEN /\ score_attempt' = score_attempt + 1
                    /\ UNCHANGED <<score_pc, score_ret>>
           ELSE /\ score_pc' = "returned"
                /\ score_ret' = 5
                /\ UNCHANGED score_attempt
    /\ UNCHANGED score_fn
    /\ UNCHANGED bridgeVars
    /\ UNCHANGED httpVars
    /\ UNCHANGED concVars
    /\ UNCHANGED facadeVars
    /\ UNCHANGED httpReqVars
    /\ UNCHANGED fixVars
    /\ UNCHANGED lifeVars
    /\ UNCHANGED traceVars
    /\ UNCHANGED genVars
    /\ UNCHANGED simVars
    /\ UNCHANGED walVars
    /\ UNCHANGED plVars

\* the pipeline takes the score
ScoreTaken ==
    /\ score_pc \in {"returned", "raised"}
    /\ score_pc' = "idle"
    /\ score_fn' = ""
    /\ score_attempt' = 0
    /\ score_replies' = <<>>
    /\ score_ret' = 0
    /\ UNCHANGED bridgeVars
    /\ UNCHANGED httpVars
    /\ UNCHANGED concVars
    /\ UNCHANGED facadeVars
    /\ UNCHANGED httpReqVars
    /\ UNCHANGED fixVars
    /\ UNCHANGED lifeVars
    /\ UNCHANGED traceVars
    /\ UNCHANGED genVars
    /\ UNCHANGED simVars
    /\ UNCHANGED walVars
    /\ UNCHANGED plVars

ScoreStartStep ==
    score_pc = "idle" /\ \E fn \in {"score_significance", "score_reply_significance"} : ScoreStart(fn)

ScorerAnswersStep ==
    score_pc = "calling" /\ \E rep \in ScorerReplies : ScorerAnswers(rep)

NextScore ==
    \/ ScoreStartStep
    \/ ScorerAnswersStep
    \/ ScoreTaken

SpecScore == Init /\ [][NextScore]_vars

\* the replies that give a score: they have text with a run of digits in it
Scorable(rep) == ~rep.raised /\ numbers(rep.val) # <<>>

\* C32: score_significance and score_reply_significance return an integer
\* from 1 to 10 and do not raise: whatever the scorer replies (exceptions,
\* empty text, text without digits, numbers out of range), _score makes at
\* most max_tries = 5 scorer calls, returns the first number of the first
\* reply that has one, clamped to 1..10, and returns 5 when no try gave a
\* score
C32_ScoreIsBetween1And10 ==
    /\ score_pc # "raised"
    /\ Len(score_replies) <= score_max_tries
    /\ score_pc = "calling" => Len(score_replies) = score_attempt - 1
    /\ score_pc = "returned" =>
        /\ score_ret \in 1..10
        /\ \A k \in 1..(Len(score_replies) - 1) : ~Scorable(score_replies[k])
        /\ LET last == score_replies[Len(score_replies)]
           IN  IF Scorable(last)
               THEN LET n == numbers(last.val)[1].n
                    IN  score_ret = IF n < 1 THEN 1 ELSE IF n > 10 THEN 10 ELSE n
               ELSE Len(score_replies) = score_max_tries /\ score_ret = 5

C32_Witness ==
    /\ score_pc = "returned"
    /\ Len(score_replies) = 4
    /\ score_replies[1].raised
    /\ score_replies[2].val = <<>>
    /\ ~score_replies[3].raised /\ score_replies[3].val = <<Chars>>
    /\ score_replies[4].val = <<Digits(0)>>
    /\ score_ret = 1

\* ------------------------------------------------- post_maker_local.py
\* the local max_tries of both generators
max_tries == 3

\* what one request to the backend gives: "error" (the call raised),
\* "status" (a status other than 200), "empty" (status 200, no text or only
\* whitespace), "text" (status 200 and a text)
BackendReplies == {"error", "status", "empty", "text"}

\* the body of a stage's try statement for one reply: "done" (content
\* taken), "except" (the except clause ran) or "fallthrough" (neither).  The
\* Anthropic client raises on a status other than 200; requests.post returns
\* the response and the generator tests status_code.
TryRequest(mode, rep) ==
    IF rep = "text" THEN "done"
    ELSE IF rep = "error" THEN "except"
    ELSE IF rep = "status" /\ mode = "anthropic" THEN "except"
    ELSE "fallthrough"

\* tries after one pass of the loop: "tries += 1" stands in the except clause
TriesAfter(tries, how) == IF how = "except" THEN tries + 1 ELSE tries

\* generate_post_local hands the prompt to one of the two generators, which
\* enters its base generation loop
GenStart(mode) ==
    /\ gen_pc = "idle"
    /\ gen_pc' = "base"
    /\ gen_mode' = mode
    /\ gen_tries' = 0
    /\ gen_replies' = <<>>
    /\ gen_base' = ""
    /\ gen_ret' = ""
    /\ UNCHANGED bridgeVars
    /\ UNCHANGED httpVars
    /\ UNCHANGED concVars
    /\ UNCHANGED facadeVars
    /\ UNCHANGED httpReqVars
    /\ UNCHANGED fixVars
    /\ UNCHANGED lifeVars
    /\ UNCHANGED traceVars
    /\ UNCHANGED scoreVars
    /\ UNCHANGED simVars
    /\ UNCHANGED walVars
    /\ UNCHANGED plVars

\* one pass of the base generation loop, and what follows the loop when the
\* pass ends it
BaseRequest(rep) ==
    /\ gen_pc = "base"
    /\ gen_tries < max_tries
    /\ Len(gen_replies) < MaxRequests
    /\ LET how   == TryRequest(gen_mode, rep)
           tries == TriesAfter(gen_tries, how)
       IN  IF how # "done" /\ tries < max_tries
               THEN /\ gen_tries' = tries
                    /\ gen_replies' = Append(gen_replies, rep)
                    /\ UNCHANGED <<gen_pc, gen_base, gen_ret>>
           ELSE IF how # "done" /\ gen_mode = "anthropic"
               THEN /\ gen_pc' = "raised"
                    /\ gen_tries' = tries
                    /\ gen_replies' = Append(gen_replies, rep)
                    /\ UNCHANGED <<gen_base, gen_ret>>
           ELSE /\ gen_pc' = "format"
                /\ gen_base' = IF how = "done" THEN "base tweet" ELSE ""
                /\ gen_tries' = 0
                /\ gen_replies' = <<>>
                /\ UNCHANGED gen_ret
    /\ UNCHANGED gen_mode
    /\ UNCHANGED bridgeVars
    /\ UNCHANGED httpVars
    /\ UNCHANGED concVars
    /\ UNCHANGED facadeVars
    /\ UNCHANGED httpReqVars
    /\ UNCHANGED fixVars
    /\ UNCHANGED lifeVars
    /\ UNCHANGED traceVars
    /\ UNCHANGED scoreVars
    /\ UNCHANGED simVars
    /\ UNCHANGED walVars
    /\ UNCHANGED plVars

\* one pass of the formatting loop, and the return that follows the loop
FormatRequest(rep) ==
    /\ gen_pc = "format"
    /\ gen_tries < max_tries
    /\ Len(gen_replies) < MaxRequests
    /\ LET how   == TryRequest(gen_mode, rep)
           tries == TriesAfter(gen_tries, how)
       IN  /\ gen_replies' = Append(gen_replies, rep)
           /\ gen_tries' = tries
           /\ IF how = "done"
                  THEN gen_pc' = "returned" /\ gen_ret' = "formatted tweet"
              ELSE IF tries < max_tries
                  THEN UNCHANGED <<gen_pc, gen_ret>>
              ELSE /\ gen_pc' = "returned"
                   /\ gen_ret' = IF gen_mode = "anthropic" THEN gen_base ELSE ""
    /\ UNCHANGED <<gen_mode, gen_base>>
    /\ UNCHANGED bridgeVars
    /\ UNCHANGED httpVars
    /\ UNCHANGED concVars
    /\ UNCHANGED facadeVars
    /\ UNCHANGED httpReqVars
    /\ UNCHANGED fixVars
    /\ UNCHANGED lifeVars
    /\ UNCHANGED traceVars
    /\ UNCHANGED scoreVars
    /\ UNCHANGED simVars
    /\ UNCHANGED walVars
    /\ UNCHANGED plVars

\* the caller takes the tweet or the exception
GenTaken ==
    /\ gen_pc \in {"returned", "raised"}
    /\ gen_pc' = "idle"
    /\ gen_mode' = ""
    /\ gen_tries' = 0
    /\ gen_replies' = <<>>
    /\ gen_base' = ""
    /\ gen_ret' = ""
    /\ UNCHANGED bridgeVars
    /\ UNCHANGED httpVars
    /\ UNCHANGED concVars
    /\ UNCHANGED facadeVars
    /\ UNCHANGED httpReqVars
    /\ UNCHANGED fixVars
    /\ UNCHANGED lifeVars
    /\ UNCHANGED traceVars
    /\ UNCHANGED scoreVars
    /\ UNCHANGED simVars
    /\ UNCHANGED walVars
    /\ UNCHANGED plVars

GenStartStep == gen_pc = "idle" /\ \E mode \in {"api", "anthropic"} : GenStart(mode)

BaseRequestStep == gen_pc = "base" /\ \E rep \in BackendReplies : BaseRequest(rep)

FormatRequestStep == gen_pc = "format" /\ \E rep \in BackendReplies : FormatRequest(rep)

NextGen ==
    \/ GenStartStep
    \/ BaseRequestStep
    \/ FormatRequestStep
    \/ GenTaken

SpecGen == Init /\ [][NextGen]_vars

\* C31: each generation stage of the post maker, base generation and
\* formatting, in both generators, issues at most max_tries = 3 requests,
\* whatever the backend replies
C31_AtMostMaxTriesRequests ==
    Len(gen_replies) <= max_tries

\* ------------------------------------- run_pipeline.py, the simulator
\* probabilities and random.random() draws are counted in millionths
One == 1000000

Times(p, num, den) == (p * num) \div den

\* now.weekday(), now.hour, the minute of the day, now.date()
Weekday(now)     == (now \div 1440) % 7
Hour(now)        == (now % 1440) \div 60
MinuteOfDay(now) == now % 1440
Date(now)        == now \div 1440

\* is_active_hour: weekdays 06:00 to 01:00, weekends 08:00 to 02:00, the
\* range running over midnight
is_active_hour(now) ==
    IF Weekday(now) >= 5
    THEN MinuteOfDay(now) >= 480 \/ MinuteOfDay(now) <= 120
    ELSE MinuteOfDay(now) >= 360 \/ MinuteOfDay(now) <= 60

\* the hours of the five peaks
PeakHours(now) == IF Weekday(now) >= 5 THEN {11, 14, 17, 20, 23} ELSE {9, 12, 15, 19, 22}

NearPeak(now) ==
    \E h \in PeakHours(now) : Hour(now) - h \in {-1, 0, 1}

\* get_post_probability at time now on the attributes s, r being the value
\* of random.random() drawn for the start of a burst: the probability and
\* the attributes as the method leaves them
get_post_probability(s, now, r) ==
    IF ~is_active_hour(now) THEN [prob |-> 200000, s |-> s]
    ELSE LET cool  == s.burst_mode /\ s.burst_count >= s.max_burst
             start == /\ ~s.burst_mode
                      /\ (s.last_burst_time = NoTime \/ now - s.last_burst_time > 30)
                      /\ r < 200000
             s1    == IF cool THEN [s EXCEPT !.burst_mode = FALSE, !.burst_count = 0]
                      ELSE IF start THEN [s EXCEPT !.burst_mode = TRUE, !.last_burst_time = now]
                      ELSE s
             p1    == IF cool THEN Times(700000, 3, 10)
                      ELSE IF s.burst_mode \/ start THEN 900000
                      ELSE 700000
             p2    == IF NearPeak(now) THEN Times(p1, 13, 10) ELSE p1
             since == now - s.last_post_time
             p3    == IF s.last_post_time # NoTime /\ since < 5 THEN Times(p2, 5, 10) ELSE p2
             hours_remaining  == 24 - Hour(now)
             target_remaining == s.max_daily_posts - s.daily_post_count
             p4    == IF target_remaining > 3 * hours_remaining THEN Times(p3, 12, 10)
                      ELSE IF target_remaining < hours_remaining THEN Times(p3, 8, 10)
                      ELSE p3
         IN  IF s.last_post_time # NoTime /\ since < 2
             THEN [prob |-> 0, s |-> s1]
             ELSE [prob |-> IF p4 > One THEN One ELSE p4, s |-> s1]

\* should_post at time now: mdp is the new random max_daily_posts of a new
\* day, r1 and r2 the two random.random() values.  The attributes after the
\* call and the value returned.
should_post(s, now, mdp, r1, r2) ==
    LET s0  == IF s.last_post_time # NoTime /\ Date(s.last_post_time) # Date(now)
               THEN [s EXCEPT !.daily_post_count = 0, !.max_daily_posts = mdp,
                              !.burst_mode = FALSE, !.burst_count = 0]
               ELSE s
        g   == get_post_probability(s0, now, r1)
        yes == r2 < g.prob
    IN  [ret |-> yes,
         s   |-> IF yes
                 THEN [g.s EXCEPT !.last_post_time = now,
                                  !.daily_post_count = @ + 1,
                                  !.burst_count = IF g.s.burst_mode THEN @ + 1 ELSE @]
                 ELSE g.s]

\* values of random.random()
Draws == {150000, 950000}

\* minutes between one call of should_post and the next
Waits == {1, 3, 60}

\* PipelineRunner constructs its simulator at time start
SimCreate(mdp, mb, start) ==
    /\ sim = NoSim
    /\ sim' = HumanBehaviorSimulator(mdp, mb)
    /\ sim_now' = start
    /\ UNCHANGED <<sim_ret, sim_calls>>
    /\ UNCHANGED bridgeVars
    /\ UNCHANGED httpVars
    /\ UNCHANGED concVars
    /\ UNCHANGED facadeVars
    /\ UNCHANGED httpReqVars
    /\ UNCHANGED fixVars
    /\ UNCHANGED lifeVars
    /\ UNCHANGED traceVars
    /\ UNCHANGED scoreVars
    /\ UNCHANGED genVars
    /\ UNCHANGED walVars
    /\ UNCHANGED plVars

\* the runner calls should_post, wait minutes after the call before
ShouldPost(wait, mdp, r1, r2) ==
    /\ sim # NoSim
    /\ sim_calls < MaxSimCalls
    /\ sim_now' = sim_now + wait
    /\ sim' = should_post(sim, sim_now', mdp, r1, r2).s
    /\ sim_ret' = should_post(sim, sim_now', mdp, r1, r2).ret
    /\ sim_calls' = sim_calls + 1
    /\ UNCHANGED bridgeVars
    /\ UNCHANGED httpVars
    /\ UNCHANGED concVars
    /\ UNCHANGED facadeVars
    /\ UNCHANGED httpReqVars
    /\ UNCHANGED fixVars
    /\ UNCHANGED lifeVars
    /\ UNCHANGED traceVars
    /\ UNCHANGED scoreVars
    /\ UNCHANGED genVars
    /\ UNCHANGED walVars
    /\ UNCHANGED plVars

SimCreateStep ==
    /\ sim = NoSim
    /\ \E mdp \in {45, 60}, mb \in {3, 5}, start \in StartTimes : SimCreate(mdp, mb, start)

ShouldPostStep ==
    /\ sim # NoSim
    /\ sim_calls < MaxSimCalls
    /\ \E wait \in Waits, mdp \in {45, 60}, r1 \in Draws, r2 \in Draws :
          ShouldPost(wait, mdp, r1, r2)

NextSim ==
    \/ SimCreateStep
    \/ ShouldPostStep

SpecSim == Init /\ [][NextSim]_vars

\* C33: should_post() returns False whenever less than 2 minutes have
\* passed since it last returned True, at any hour of the day and in or out
\* of burst mode
C33_MinimumGapBetweenPosts ==
    [][ (/\ sim.last_post_time # NoTime
         /\ sim_now' - sim.last_post_time < 2
         /\ sim_calls' = sim_calls + 1)
        => sim_ret' = FALSE ]_vars

\* C40: burst_count never exceeds max_burst, whatever the times of day of
\* the should_post calls
C40_BurstCountWithinMax ==
    sim.burst_count <= sim.max_burst

\* ------------------------------------- pipeline.py, wallet transactions
\* the entries of a decision: a wallet with address and amount, and entries
\* that lack one of the two keys
WalletEntries ==
    { [address |-> "0xA", amount |-> 1],
      [address |-> "0xB", amount |-> 2],
      [address |-> "0xB"],
      [amount |-> 1] }

\* what wallet_address_in_post returns: text that is no JSON, or the JSON of
\* a list of entries
WalletReplies ==
    {[json |-> FALSE, wallets |-> <<>>]} \cup
    {[json |-> TRUE, wallets |-> w] : w \in SeqsUpTo(WalletEntries, 2)}

\* the entries of wallets that "for wallet in wallets" reaches before one of
\* them raises KeyError: all of them when none does
RECURSIVE Reached(_)
Reached(wallets) ==
    IF wallets = <<>> THEN <<>>
    ELSE IF Has(Head(wallets), "address") /\ Has(Head(wallets), "amount")
         THEN <<Head(wallets)>> \o Reached(Tail(wallets))
         ELSE <<>>

\* the body of the try statement for one decision: the transfers made and
\* the way it ends, "break" or "continue" (JSONDecodeError or KeyError)
TryTransfers(rep) ==
    IF ~rep.json THEN [sent |-> <<>>, ends |-> "continue"]
    ELSE IF rep.wallets = <<>> THEN [sent |-> <<>>, ends |-> "break"]
    ELSE [sent |-> Reached(rep.wallets),
          ends |-> IF Len(Reached(rep.wallets)) = Len(rep.wallets) THEN "break" ELSE "continue"]

\* _handle_wallet_transactions up to its loop: rich is
\* "balance_ether > min_eth_balance"
WalletStart(rich) ==
    /\ wal_pc = "idle"
    /\ wal_pc' = IF rich THEN "deciding" ELSE "done"
    /\ wal_attempt' = IF rich THEN 1 ELSE 0
    /\ wal_decisions' = <<>>
    /\ wal_transfers' = <<>>
    /\ UNCHANGED bridgeVars
    /\ UNCHANGED httpVars
    /\ UNCHANGED concVars
    /\ UNCHANGED facadeVars
    /\ UNCHANGED httpReqVars
    /\ UNCHANGED fixVars
    /\ UNCHANGED lifeVars
    /\ UNCHANGED traceVars
    /\ UNCHANGED scoreVars
    /\ UNCHANGED genVars
    /\ UNCHANGED simVars
    /\ UNCHANGED plVars

\* one pass of the loop
WalletDecision(rep) ==
    /\ wal_pc = "deciding"
    /\ LET t == TryTransfers(rep)
       IN  /\ wal_decisions' = Append(wal_decisions, rep)
           /\ wal_transfers' = wal_transfers \o
                  [i \in 1..Len(t.sent) |-> [attempt |-> wal_attempt, wallet |-> t.sent[i]]]
           /\ IF t.ends = "continue" /\ wal_attempt < 2
              THEN wal_attempt' = wal_attempt + 1 /\ UNCHANGED wal_pc
              ELSE wal_pc' = "done" /\ UNCHANGED wal_attempt
    /\ UNCHANGED bridgeVars
    /\ UNCHANGED httpVars
    /\ UNCHANGED concVars
    /\ UNCHANGED facadeVars
    /\ UNCHANGED httpReqVars
    /\ UNCHANGED fixVars
    /\ UNCHANGED lifeVars
    /\ UNCHANGED traceVars
    /\ UNCHANGED scoreVars
    /\ UNCHANGED genVars
    /\ UNCHANGED simVars
    /\ UNCHANGED plVars

\* the handler has returned
WalletTaken ==
    /\ wal_pc = "done"
    /\ wal_pc' = "idle"
    /\ wal_attempt' = 0
    /\ wal_decisions' = <<>>
    /\ wal_transfers' = <<>>
    /\ UNCHANGED bridgeVars
    /\ UNCHANGED httpVars
    /\ UNCHANGED concVars
    /\ UNCHANGED facadeVars
    /\ UNCHANGED httpReqVars
    /\ UNCHANGED fixVars
    /\ UNCHANGED lifeVars
    /\ UNCHANGED traceVars
    /\ UNCHANGED scoreVars
    /\ UNCHANGED genVars
    /\ UNCHANGED simVars
    /\ UNCHANGED plVars

WalletStartStep == wal_pc = "idle" /\ \E rich \in BOOLEAN : WalletStart(rich)

WalletDecisionStep == wal_pc = "deciding" /\ \E rep \in WalletReplies : WalletDecision(rep)

NextWallet ==
    \/ WalletStartStep
    \/ WalletDecisionStep
    \/ WalletTaken

SpecWallet == Init /\ [][NextWallet]_vars

\* C39: within one _handle_wallet_transactions call the transfers are those
\* of at most one decision: no transfer is made in a pass of the loop that
\* is retried afterwards
C39_TransfersOfOneDecision ==
    \A i, j \in 1..Len(wal_transfers) : wal_transfers[i].attempt = wal_transfers[j].attempt

\* ------------------------------------------ pipeline.py, notifications
\* tweet ids of notifications
TweetIds == {1, 2, 3}

\* what fetch_notification_context returns, as the tweet ids of the tuples
Notifications == SeqsUpTo(TweetIds, 2)

\* Filtered that keeps every notification
Filtered_all(notifs, existing) == notifs

\* filtered_notifs: the notifications whose tweet id is not stored
Filtered(notifs, existing) == SelectSeq(notifs, LAMBDA id : id \notin existing)

\* the handlers a run calls for its new notifications: all three, or, when
\* the wallet handler raises, those called up to it
Handlers(wallet_raises) ==
    IF wallet_raises THEN {"replies", "wallet"} ELSE {"replies", "wallet", "follows"}

\* PostingPipeline.run from fetch_notification_context to the handlers
PipelineRun(notifs, wallet_raises) ==
    /\ pl_run < MaxRuns
    /\ LET existing_tweet_ids == pl_db
           filtered_notifs    == Filtered(notifs, existing_tweet_ids)
       IN  /\ pl_db' = pl_db \cup {notifs[i] : i \in 1..Len(notifs)}
           /\ pl_handled' = pl_handled \cup
                  {[run |-> pl_run + 1, tweet_id |-> filtered_notifs[i], handler |-> h] :
                      i \in 1..Len(filtered_notifs), h \in Handlers(wallet_raises)}
    /\ pl_run' = pl_run + 1
    /\ pl_notifs' = notifs
    /\ pl_stored' = Append(pl_stored, pl_db')
    /\ UNCHANGED bridgeVars
    /\ UNCHANGED httpVars
    /\ UNCHANGED concVars
    /\ UNCHANGED facadeVars
    /\ UNCHANGED httpReqVars
    /\ UNCHANGED fixVars
    /\ UNCHANGED lifeVars
    /\ UNCHANGED traceVars
    /\ UNCHANGED scoreVars
    /\ UNCHANGED genVars
    /\ UNCHANGED simVars
    /\ UNCHANGED walVars

RunStep ==
    /\ pl_run < MaxRuns
    /\ \E notifs \in Notifications, wallet_raises \in BOOLEAN : PipelineRun(notifs, wallet_raises)

\* the runner starts afresh on an empty database
PipelineReset ==
    /\ pl_run = MaxRuns
    /\ pl_db' = {}
    /\ pl_run' = 0
    /\ pl_notifs' = <<>>
    /\ pl_stored' = <<>>
    /\ pl_handled' = {}
    /\ UNCHANGED bridgeVars
    /\ UNCHANGED httpVars
    /\ UNCHANGED concVars
    /\ UNCHANGED facadeVars
    /\ UNCHANGED httpReqVars
    /\ UNCHANGED fixVars
    /\ UNCHANGED lifeVars
    /\ UNCHANGED traceVars
    /\ UNCHANGED scoreVars
    /\ UNCHANGED genVars
    /\ UNCHANGED simVars
    /\ UNCHANGED walVars

NextPipeline ==
    \/ RunStep
    \/ PipelineReset

SpecPipeline == Init /\ [][NextPipeline]_vars

\* C34: a notification whose tweet id an earlier run stored as processed is
\* not passed again to the reply, wallet or follow handler by a later run
C34_ProcessedIsNotHandledAgain ==
    \A h \in pl_handled :
        \A r \in 1..(h.run - 1) : h.tweet_id \notin pl_stored[r]

C34_Witness ==
    /\ pl_run = 2
    /\ Len(pl_notifs) = 2
    /\ pl_notifs[1] \in pl_stored[1]
    /\ pl_notifs[2] \notin pl_stored[1]
    /\ \E h \in pl_handled : h.run = 2 /\ h.tweet_id = pl_notifs[2] /\ h.handler = "follows"
    /\ \E h \in pl_handled : h.run = 1 /\ h.tweet_id = pl_notifs[1]

====
